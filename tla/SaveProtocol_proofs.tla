------------------------ MODULE SaveProtocol_proofs ------------------------
(***************************************************************************)
(* Proofs about SaveProtocol, and that it implements SnapshotRegister, for *)
(* any number of processes and panes and any commands and programs.        *)
(***************************************************************************)
EXTENDS SaveHistory, TLAPS

\* A server without panes exits, and an exited one has none.
ServerHasPanes == server = "down" <=> live = Empty

\* The process that drops a session knows which.
DropNamesPane == \A p \in Procs : pc[p] = "drop" => arg[p] \in Panes

\* Only a session that is there is marked as forgotten.
MarksLive == \A x \in forgotten : live[x] # Absent

Base == TypeOK /\ LocksHeld /\ ServerHasPanes /\ DropNamesPane /\ MarksLive

\* Inductive strengthening of NoLostChange: a stale snapshot about to be
\* written is a lost change too, unless a save follows it.
Behind ==
    \/ saved # Kept
    \/ \E p \in Procs : pc[p] \in Reading /\ snap[p] # Kept

CoveredInv == server = "ready" /\ changes = "covered" /\ Behind => Pending

\* Inductive strengthening of ForgottenStaysOut: a dropped session is gone
\* or still marked, and no snapshot in flight has it.
DroppedInv ==
    \A x \in dropped :
        /\ saved[x] = Absent
        /\ live[x] = Absent \/ x \in forgotten
        /\ \A p \in Procs : pc[p] \in Reading => snap[p][x] = Absent

\* The snapshot of a forget leaves the session it marked out.
ForgetReads ==
    \A p \in Procs : pc[p] \in Reading /\ arg[p] \in forgotten => snap[p][arg[p]] = Absent

\* Inductive strengthening of ShutdownKeeps: a snapshot past the check for
\* a shutdown loses nothing either.
GuardedInv ==
    machine = "stopping" =>
        /\ ~Loses(guarded, saved)
        /\ \A p \in Procs : pc[p] = "write" => ~Loses(guarded, snap[p])
-----------------------------------------------------------------------------
USE ConstantsAssumption

\* Every variable keeps its type.
LEMMA TypeInit == Init => TypeOK
  BY DEF Init, TypeOK, Snapshot, Empty, Value, Location

LEMMA KeptType == TypeOK => Kept \in Snapshot
  BY DEF TypeOK, Kept, Snapshot, Value

LEMMA TypeNext == TypeOK /\ [Next]_vars => TypeOK'
<1> SUFFICES ASSUME TypeOK, [Next]_vars PROVE TypeOK'
  OBVIOUS
<1> USE DEF TypeOK, tmux, locks, history
<1>k. Kept \in Snapshot
  BY KeptType
<1>e. Empty \in Snapshot /\ Shell \in Value /\ Absent \in Value
  BY DEF Empty, Snapshot, Value
<1>l. {"idle", "start", "settle", "build", "check", "write"} \subseteq Location
  BY DEF Location, InQueue, InSave, Reading
<1>1. ASSUME NEW x \in Panes, NEW v \in Value, Edit(x, v) PROVE TypeOK'
  BY <1>1, <1>e, <1>l DEF Edit, Announce, Snapshot
<1>2. ASSUME NEW x \in Panes, ServerStart(x) PROVE TypeOK'
  BY <1>2, <1>e, <1>l DEF ServerStart, Announce, Snapshot
<1>3. CASE ServerExit \/ MarkReady
  BY <1>3, <1>e, <1>l DEF ServerExit, MarkReady, Announce
<1>4. CASE ShutdownBegins
  BY <1>4, <1>e DEF ShutdownBegins, Snapshot
<1>5. CASE Reboot
  BY <1>5, <1>e, <1>l DEF Reboot
<1>6. ASSUME NEW p \in Procs, Abort(p) \/ Stopping(p) \/ EndIdle(p) PROVE TypeOK'
  BY <1>6, <1>e, <1>l DEF Abort, Stopping, Forgot, EndIdle, End
<1>7. ASSUME NEW p \in Procs,
             \/ Tick(p) \/ TryQueue(p) \/ Coalesce(p) \/ Settle(p) \/ Acquire(p)
             \/ Unqueue(p) \/ Checked(p) \/ StartIdle(p) \/ HoldQueue(p) \/ LeaveQueue(p)
             \/ StartRestore(p) \/ \E x \in Panes : Forget(p, x)
      PROVE TypeOK'
  BY <1>7 DEF Tick, TryQueue, Coalesce, Settle, Acquire, Unqueue, Checked, StartIdle,
       HoldQueue, LeaveQueue, StartRestore, Forget, Goto, Location, InQueue, InSave, Reading
<1>8. ASSUME NEW p \in Procs, Read(p) PROVE TypeOK'
  BY <1>8, <1>k, <1>e, <1>l DEF Read, Forgot, End, Goto, Location, InQueue, InSave, Reading
<1>9. ASSUME NEW p \in Procs, Build(p) PROVE TypeOK'
  <2>1. CASE server = "down"
    BY <1>9, <2>1, <1>e, <1>l DEF Build, Forgot, End
  <2>2. CASE server # "down"
    <3> DEFINE built == [x \in Panes |->
            IF snap[p][x] \in {Absent} \cup Commands THEN snap[p][x]
            ELSE IF live[x] \in Programs THEN live[x] ELSE Shell]
    <3>1. snap' = [snap EXCEPT ![p] = built]
      BY <1>9, <2>2 DEF Build
    <3>2. built \in Snapshot
      BY <1>e DEF Snapshot
    <3> QED
      BY <1>9, <2>2, <3>1, <3>2, <1>l DEF Build, Goto
  <2> QED
    BY <2>1, <2>2
<1>10. ASSUME NEW p \in Procs, Unchanged(p) \/ Write(p) PROVE TypeOK'
  BY <1>10, <1>e, <1>l DEF Unchanged, Write, Commit, Forgot, End
<1>11. ASSUME NEW p \in Procs, Drop(p) PROVE TypeOK'
  BY <1>11, <1>e, <1>l DEF Drop, Forgot, End, Snapshot
<1>12. ASSUME NEW p \in Procs, NEW x \in Panes, RestorePane(p, x) PROVE TypeOK'
  BY <1>12, <1>e DEF RestorePane, Snapshot, Location, InQueue, InSave
<1>13. ASSUME NEW p \in Procs, EndRestore(p) PROVE TypeOK'
  BY <1>13, <1>e, <1>l DEF EndRestore
<1>14. CASE UNCHANGED vars
  BY <1>14 DEF vars
<1>15. ASSUME NEW p \in Procs, Unheard(p) PROVE TypeOK'
  BY <1>15, <1>e, <1>l DEF Unheard, Goto, Snapshot
<1> QED
  BY <1>1, <1>2, <1>3, <1>4, <1>5, <1>6, <1>7, <1>8, <1>9, <1>10, <1>11, <1>12, <1>13, <1>14,
     <1>15 DEF Next, Environment, Working, Saving

\* Type correctness of the protocol.
THEOREM TypeCorrect == Spec => []TypeOK
<1>1. Init => TypeOK
  BY TypeInit
<1>2. TypeOK /\ [Next]_vars => TypeOK'
  BY TypeNext
<1> QED
  BY <1>1, <1>2, PTL DEF Spec
-----------------------------------------------------------------------------
\* A process step changes pc only at its own process.
LEMMA LocksNext == TypeOK /\ LocksHeld /\ [Next]_vars => LocksHeld'
<1> SUFFICES ASSUME TypeOK, LocksHeld, [Next]_vars PROVE LocksHeld'
  OBVIOUS
<1> USE DEF TypeOK, LocksHeld, tmux, locks, history, InQueue, InSave, Reading
<1>1. ASSUME NEW x \in Panes, \/ ServerStart(x) \/ \E v \in Value : Edit(x, v)
      PROVE LocksHeld'
  BY <1>1 DEF Edit, ServerStart, Announce
<1>2. CASE ServerExit \/ MarkReady \/ ShutdownBegins
  BY <1>2 DEF ServerExit, MarkReady, ShutdownBegins, Announce
<1>3. CASE Reboot
  BY <1>3 DEF Reboot
<1>4. ASSUME NEW p \in Procs,
             \/ Abort(p) \/ Stopping(p) \/ EndIdle(p) \/ Unchanged(p) \/ Write(p) \/ Drop(p)
      PROVE LocksHeld'
  BY <1>4 DEF Abort, Stopping, EndIdle, Unchanged, Write, Drop, Commit, End
<1>5. ASSUME NEW p \in Procs,
             \/ Tick(p) \/ Coalesce(p) \/ Settle(p) \/ Checked(p) \/ Unheard(p) \/ StartIdle(p)
             \/ StartRestore(p) \/ \E x \in Panes : Forget(p, x)
      PROVE LocksHeld'
  BY <1>5 DEF Tick, Coalesce, Settle, Checked, Unheard, StartIdle, StartRestore, Forget, Goto
<1>6. ASSUME NEW p \in Procs, TryQueue(p) \/ HoldQueue(p) \/ Acquire(p) PROVE LocksHeld'
  BY <1>6 DEF TryQueue, HoldQueue, Acquire, Goto
<1>7. ASSUME NEW p \in Procs, Unqueue(p) \/ LeaveQueue(p) PROVE LocksHeld'
  BY <1>7 DEF Unqueue, LeaveQueue, Goto
<1>8. ASSUME NEW p \in Procs, Read(p) \/ Build(p) PROVE LocksHeld'
  BY <1>8 DEF Read, Build, End, Goto
<1>9. ASSUME NEW p \in Procs, EndRestore(p) \/ \E x \in Panes : RestorePane(p, x)
      PROVE LocksHeld'
  BY <1>9 DEF RestorePane, EndRestore
<1>10. CASE UNCHANGED vars
  BY <1>10 DEF vars
<1> QED
  BY <1>1, <1>2, <1>3, <1>4, <1>5, <1>6, <1>7, <1>8, <1>9, <1>10
     DEF Next, Environment, Working, Saving

\* The locks exclude: each is held by the one process whose code is between
\* taking and releasing it, so tmux is read and the snapshot written by one
\* process at a time.
THEOREM LocksExclude == Spec => []LocksHeld
<1>1. Init => TypeOK /\ LocksHeld
  BY TypeInit DEF Init, LocksHeld, InQueue, InSave, Reading
<1>2. TypeOK /\ LocksHeld /\ [Next]_vars => (TypeOK /\ LocksHeld)'
  BY TypeNext, LocksNext
<1> QED
  BY <1>1, <1>2, PTL DEF Spec
-----------------------------------------------------------------------------
LEMMA ServerNext == TypeOK /\ ServerHasPanes /\ [Next]_vars => ServerHasPanes'
<1> SUFFICES ASSUME TypeOK, ServerHasPanes, [Next]_vars PROVE ServerHasPanes'
  OBVIOUS
<1> USE DEF TypeOK, ServerHasPanes, tmux, locks
<1>a. Shell # Absent
  BY DEF Shell, Absent
<1>1. ASSUME NEW x \in Panes, NEW v \in Value, Edit(x, v) PROVE ServerHasPanes'
  BY <1>1 DEF Edit
<1>2. ASSUME NEW x \in Panes, ServerStart(x) PROVE ServerHasPanes'
  <2>1. live'[x] = Shell
    BY <1>2 DEF ServerStart, Snapshot
  <2> QED
    BY <1>2, <2>1, <1>a DEF ServerStart, Empty
<1>3. CASE ServerExit \/ MarkReady \/ ShutdownBegins \/ Reboot
  BY <1>3 DEF ServerExit, MarkReady, ShutdownBegins, Reboot, Empty
<1>4. ASSUME NEW p \in Procs, NEW x \in Panes, RestorePane(p, x) PROVE ServerHasPanes'
  <2>1. live'[x] # Absent
    BY <1>4, <1>a DEF RestorePane, Snapshot
  <2> QED
    BY <1>4, <2>1 DEF RestorePane, Empty
<1>5. ASSUME NEW p \in Procs, EndRestore(p) PROVE ServerHasPanes'
  BY <1>5 DEF EndRestore, Empty
<1>6. ASSUME NEW p \in Procs, NEW x \in Panes, Forget(p, x) PROVE ServerHasPanes'
  BY <1>6 DEF Forget, Empty
<1>7. CASE UNCHANGED tmux
  BY <1>7 DEF Empty
<1> QED
  BY <1>1, <1>2, <1>3, <1>4, <1>5, <1>6, <1>7
     DEF Next, Environment, Working, Saving, vars, Abort, StartRestore, StartIdle, Tick,
         TryQueue, Coalesce, Settle, Acquire, Unqueue, Read, Build, Unchanged, Stopping,
         Checked, Unheard, Write, Commit, Drop, HoldQueue, LeaveQueue, EndIdle

LEMMA DropNext == TypeOK /\ DropNamesPane /\ [Next]_vars => DropNamesPane'
<1> SUFFICES ASSUME TypeOK, DropNamesPane, [Next]_vars PROVE DropNamesPane'
  OBVIOUS
<1> USE DEF TypeOK, DropNamesPane, tmux, locks, history
<1>2. ASSUME NEW x \in Panes, \/ ServerStart(x) \/ \E v \in Value : Edit(x, v)
      PROVE DropNamesPane'
  BY <1>2 DEF Edit, ServerStart, Announce
<1>3. CASE ServerExit \/ MarkReady \/ ShutdownBegins \/ Reboot \/ UNCHANGED vars
  BY <1>3 DEF ServerExit, MarkReady, ShutdownBegins, Reboot, Announce, vars
<1>4. ASSUME NEW p \in Procs,
             \/ Abort(p) \/ Stopping(p) \/ EndIdle(p) \/ Unchanged(p) \/ Write(p) \/ Drop(p)
      PROVE DropNamesPane'
  BY <1>4 DEF Abort, Stopping, EndIdle, Unchanged, Write, Drop, Commit, End
<1>5. ASSUME NEW p \in Procs,
             \/ Tick(p) \/ Coalesce(p) \/ Settle(p) \/ Checked(p) \/ Unheard(p) \/ StartIdle(p)
             \/ StartRestore(p) \/ TryQueue(p) \/ HoldQueue(p) \/ Acquire(p)
             \/ Unqueue(p) \/ LeaveQueue(p)
             \/ EndRestore(p) \/ \E x \in Panes : Forget(p, x) \/ RestorePane(p, x)
      PROVE DropNamesPane'
  BY <1>5 DEF Tick, Coalesce, Settle, Checked, Unheard, StartIdle, StartRestore, Forget, Goto, TryQueue,
       HoldQueue, Acquire, Unqueue, LeaveQueue, RestorePane, EndRestore
<1>6. ASSUME NEW p \in Procs, Read(p) \/ Build(p) PROVE DropNamesPane'
  BY <1>6 DEF Read, Build, End, Goto
<1> QED
  BY <1>2, <1>3, <1>4, <1>5, <1>6 DEF Next, Environment, Working, Saving

LEMMA MarksNext == TypeOK /\ MarksLive /\ [Next]_vars => MarksLive'
<1> SUFFICES ASSUME TypeOK, MarksLive, [Next]_vars PROVE MarksLive'
  OBVIOUS
<1> USE DEF TypeOK, MarksLive, tmux, locks, Snapshot
<1>a. Shell # Absent
  BY DEF Shell, Absent
<1>1. ASSUME NEW x \in Panes, NEW v \in Value, Edit(x, v) PROVE MarksLive'
  BY <1>1 DEF Edit
<1>2. ASSUME NEW x \in Panes, ServerStart(x) PROVE MarksLive'
  BY <1>2, <1>a DEF ServerStart
<1>3. CASE ServerExit \/ MarkReady \/ ShutdownBegins \/ Reboot
  BY <1>3 DEF ServerExit, MarkReady, ShutdownBegins, Reboot
<1>4. ASSUME NEW p \in Procs, NEW x \in Panes, RestorePane(p, x) PROVE MarksLive'
  BY <1>4, <1>a DEF RestorePane
<1>5. ASSUME NEW p \in Procs, EndRestore(p) PROVE MarksLive'
  BY <1>5 DEF EndRestore
<1>6. ASSUME NEW p \in Procs, NEW x \in Panes, Forget(p, x) PROVE MarksLive'
  BY <1>6 DEF Forget
<1>7. CASE UNCHANGED tmux
  BY <1>7
<1> QED
  BY <1>1, <1>2, <1>3, <1>4, <1>5, <1>6, <1>7
     DEF Next, Environment, Working, Saving, vars, Abort, StartRestore, StartIdle, Tick,
         TryQueue, Coalesce, Settle, Acquire, Unqueue, Read, Build, Unchanged, Stopping,
         Checked, Unheard, Write, Commit, Drop, HoldQueue, LeaveQueue, EndIdle

LEMMA BaseInit == Init => Base
  BY TypeInit DEF Init, Base, LocksHeld, InQueue, InSave, Reading, ServerHasPanes,
     DropNamesPane, MarksLive

LEMMA BaseNext == Base /\ [Next]_vars => Base'
  BY TypeNext, LocksNext, ServerNext, DropNext, MarksNext DEF Base

LEMMA BaseInvariant == Spec => []Base
  BY BaseInit, BaseNext, PTL DEF Spec
-----------------------------------------------------------------------------
LEMMA CoveredNext ==
  ASSUME Base, CoveredInv, [Next]_vars
  PROVE  CoveredInv'
<1> SUFFICES ASSUME server' = "ready", changes' = "covered", Behind' PROVE Pending'
  BY DEF CoveredInv
<1> USE DEF Base, TypeOK, tmux, locks, history
<1>k. UNCHANGED tmux => Kept' = Kept
  BY DEF Kept
\* A step that leaves the server, the snapshots and every pending save alone.
<1>q. ASSUME UNCHANGED <<tmux, saved>>, changes = "covered", NEW p \in Procs,
             \A r \in Procs \ {p} : pc'[r] = pc[r] /\ snap'[r] = snap[r],
             pc'[p] \notin Reading, pc[p] \notin BeforeRead \cup Reading
      PROVE  Pending'
  <2>1. Behind
    BY <1>q, <1>k DEF Behind
  <2>2. PICK r \in Procs : \/ pc[r] \in BeforeRead
                           \/ pc[r] \in Reading /\ snap[r] = Kept
    BY <2>1, <1>q DEF CoveredInv, Pending
  <2>3. r # p
    BY <2>2, <1>q
  <2> QED
    BY <2>2, <2>3, <1>q, <1>k DEF Pending
<1>1. ASSUME NEW x \in Panes, \/ ServerStart(x) \/ \E v \in Value : Edit(x, v)
      PROVE  Pending'
  BY <1>1 DEF ServerStart, Edit, Announce, Pending, BeforeRead
<1>2. CASE MarkReady
  BY <1>2 DEF MarkReady, Announce, Pending, BeforeRead
<1>3. CASE ServerExit \/ Reboot
  BY <1>3 DEF ServerExit, Reboot
<1>4. CASE ShutdownBegins \/ UNCHANGED vars
  <2>1. Kept' = Kept
    BY <1>4 DEF ShutdownBegins, Kept, vars
  <2>2. Behind /\ server = "ready" /\ changes = "covered"
    BY <1>4, <2>1 DEF ShutdownBegins, Behind, vars
  <2>3. Pending
    BY <2>2 DEF CoveredInv
  <2> QED
    BY <1>4, <2>1, <2>3 DEF ShutdownBegins, Pending, vars
<1>5. ASSUME NEW p \in Procs, Abort(p) \/ Stopping(p) \/ \E x \in Panes : RestorePane(p, x)
      PROVE  Pending'
  BY <1>5 DEF Abort, Stopping, RestorePane
<1>6. ASSUME NEW p \in Procs, Tick(p) \/ TryQueue(p) \/ Settle(p) \/ Unqueue(p)
             \/ \E x \in Panes : Forget(p, x)
      PROVE  Pending'
  BY <1>6 DEF Tick, TryQueue, Settle, Unqueue, Forget, Goto, Pending, BeforeRead
<1>7. ASSUME NEW p \in Procs, Coalesce(p) PROVE Pending'
  <2>1. queue \in Procs /\ pc[queue] \in InQueue
    BY <1>7 DEF Coalesce, LocksHeld
  <2>2. pc[queue] # "heldqueue"    \* or the change would count as missed
    BY <1>7 DEF Coalesce
  <2>3. pc[queue] \in BeforeRead /\ queue # p
    BY <2>1, <2>2, <1>7 DEF Coalesce, Goto, InQueue, BeforeRead
  <2> QED
    BY <2>1, <2>3, <1>7 DEF Coalesce, Goto, Pending
<1>8. ASSUME NEW p \in Procs, Acquire(p) PROVE Pending'
  <2>1. CASE pc[p] \in {"wait", "fwait"}
    BY <2>1, <1>8 DEF Acquire, Goto, Pending, BeforeRead
  <2>2. CASE pc[p] \notin {"wait", "fwait"}
    BY <2>2, <1>8, <1>q DEF Acquire, Goto, BeforeRead, Reading
  <2> QED
    BY <2>1, <2>2
<1>9. ASSUME NEW p \in Procs, StartRestore(p) \/ StartIdle(p) \/ HoldQueue(p) \/ LeaveQueue(p)
      PROVE  Pending'
  BY <1>9, <1>q DEF StartRestore, StartIdle, HoldQueue, LeaveQueue, Goto, BeforeRead, Reading
<1>10. ASSUME NEW p \in Procs, EndIdle(p) PROVE Pending'
  BY <1>10, <1>q DEF EndIdle, End, BeforeRead, Reading
<1>11. ASSUME NEW p \in Procs, Read(p) PROVE Pending'
  <2>1. ~NoServer /\ server = "ready"
    BY <1>11 DEF Read, NoServer, ServerHasPanes
  <2>2. snap'[p] = Kept /\ pc'[p] = "build"
    BY <2>1, <1>11 DEF Read, Goto
  <2> QED
    BY <2>2, <1>k, <1>11 DEF Read, Pending, Reading
<1>12. ASSUME NEW p \in Procs, Build(p) PROVE Pending'
  <2>1. pc[p] = "build" /\ pc'[p] = "check" /\ server = "ready" /\ UNCHANGED <<tmux, saved, changes>>
    BY <1>12 DEF Build, Goto
  <2>2. \A r \in Procs \ {p} : pc'[r] = pc[r] /\ snap'[r] = snap[r]
    BY <1>12 DEF Build, Goto, End
  <2>3. CASE snap[p] = Kept
    <3> DEFINE built == [x \in Panes |->
            IF snap[p][x] \in {Absent} \cup Commands THEN snap[p][x]
            ELSE IF live[x] \in Programs THEN live[x] ELSE Shell]
    <3>1. snap'[p] = built
      BY <1>12, <2>1 DEF Build
    <3>2. ASSUME NEW x \in Panes PROVE built[x] = Kept[x]
      BY <2>3 DEF Kept, Snapshot, Value
    <3>3. built = Kept
      BY <3>2 DEF Kept
    <3> QED
      BY <3>1, <3>3, <2>1, <1>k DEF Pending, Reading
  <2>4. CASE snap[p] # Kept
    <3>1. Behind
      BY <2>1, <2>4 DEF Behind, Reading
    <3>2. PICK r \in Procs : \/ pc[r] \in BeforeRead
                             \/ pc[r] \in Reading /\ snap[r] = Kept
      BY <3>1, <2>1 DEF CoveredInv, Pending
    <3>3. r # p
      BY <3>2, <2>1, <2>4 DEF BeforeRead
    <3> QED
      BY <3>2, <3>3, <2>1, <2>2, <1>k DEF Pending
  <2> QED
    BY <2>3, <2>4
<1>13. ASSUME NEW p \in Procs, Checked(p) \/ Unheard(p) PROVE Pending'
  <2>1. UNCHANGED <<tmux, saved, changes, snap>> /\ pc[p] = "check" /\ pc'[p] = "write"
        /\ \A r \in Procs \ {p} : pc'[r] = pc[r]
    BY <1>13 DEF Checked, Unheard, Goto
  <2>2. Behind
    BY <2>1, <1>k DEF Behind, Reading
  <2>3. PICK r \in Procs : \/ pc[r] \in BeforeRead
                           \/ pc[r] \in Reading /\ snap[r] = Kept
    BY <2>1, <2>2 DEF CoveredInv, Pending
  <2>4. pc'[r] \in BeforeRead \/ pc'[r] \in Reading
    BY <2>1, <2>3 DEF BeforeRead, Reading
  <2> QED
    BY <2>1, <2>3, <2>4, <1>k DEF Pending, BeforeRead, Reading
<1>14. ASSUME NEW p \in Procs, Unchanged(p) \/ Write(p) PROVE Pending'
  <2>1. /\ UNCHANGED tmux /\ saved' = snap[p] /\ pc[p] \in Reading /\ pc'[p] = "idle"
        /\ \A r \in Procs \ {p} : pc'[r] = pc[r] /\ snap'[r] = snap[r]
        /\ changes' = IF snap[p] = Kept THEN "covered" ELSE changes
    BY <1>14 DEF Unchanged, Write, Commit, End, Reading
  <2>2. CASE snap[p] = Kept
    <3>1. PICK r \in Procs : pc'[r] \in Reading /\ snap'[r] # Kept'
      BY <2>1, <2>2, <1>k DEF Behind
    <3>2. r # p /\ pc[r] \in Reading
      BY <3>1, <2>1 DEF Reading
    <3> QED    \* two processes hold the save lock
      BY <3>2, <2>1 DEF LocksHeld, InSave
  <2>3. CASE snap[p] # Kept
    <3>1. Behind /\ changes = "covered"
      BY <2>1, <2>3 DEF Behind
    <3>2. PICK r \in Procs : \/ pc[r] \in BeforeRead
                             \/ pc[r] \in Reading /\ snap[r] = Kept
      BY <3>1, <2>1 DEF CoveredInv, Pending
    <3>3. r # p
      BY <3>2, <2>1, <2>3 DEF BeforeRead, Reading
    <3> QED
      BY <3>2, <3>3, <2>1, <1>k DEF Pending
  <2> QED
    BY <2>2, <2>3
<1>15. ASSUME NEW p \in Procs, Drop(p) PROVE Pending'
  <2>1. /\ UNCHANGED tmux /\ pc[p] = "drop" /\ pc'[p] = "idle" /\ arg[p] \in Panes
        /\ saved' = [saved EXCEPT ![arg[p]] = Absent]
        /\ \A r \in Procs \ {p} : pc'[r] = pc[r] /\ snap'[r] = snap[r]
        /\ changes = "covered" /\ Kept[arg[p]] = Absent
    BY <1>15 DEF Drop, End, DropNamesPane
  <2>2. saved = Kept => saved' = Kept'
    BY <2>1, <1>k, KeptType DEF Snapshot
  <2>3. Behind
    BY <2>1, <2>2, <1>k DEF Behind, Reading
  <2>4. PICK r \in Procs : \/ pc[r] \in BeforeRead
                           \/ pc[r] \in Reading /\ snap[r] = Kept
    BY <2>1, <2>3 DEF CoveredInv, Pending
  <2>5. r # p
    BY <2>4, <2>1 DEF BeforeRead, Reading
  <2> QED
    BY <2>4, <2>5, <2>1, <1>k DEF Pending
<1>16. ASSUME NEW p \in Procs, EndRestore(p) PROVE Pending'
  <2>1. CASE pc[p] = "created"
    BY <2>1, <1>16 DEF EndRestore, Pending, BeforeRead
  <2>2. CASE pc[p] = "create"
    BY <2>2, <1>16, <1>q DEF EndRestore, BeforeRead, Reading
  <2> QED
    BY <2>1, <2>2, <1>16 DEF EndRestore
<1> QED
  BY <1>1, <1>2, <1>3, <1>4, <1>5, <1>6, <1>7, <1>8, <1>9, <1>10, <1>11, <1>12, <1>13, <1>14,
     <1>15, <1>16 DEF Next, Environment, Working, Saving

\* Coalescing loses no change.  The invariant has to speak of the snapshots
\* in flight too: one that is stale when it is written makes a snapshot
\* that was right wrong.  A save that leaves because a WaitIdle holds the
\* queue lock is the one that counts as missed.
THEOREM ChangesAreSaved == Spec => []NoLostChange
<1>1. Init => CoveredInv
  BY DEF Init, CoveredInv
<1>2. Base /\ CoveredInv /\ [Next]_vars => CoveredInv'
  BY CoveredNext
<1>3. CoveredInv => NoLostChange
  BY DEF CoveredInv, NoLostChange, Behind
<1> QED
  BY <1>1, <1>2, <1>3, BaseInvariant, PTL DEF Spec
-----------------------------------------------------------------------------
LEMMA DroppedNext ==
  ASSUME Base, ForgetReads, DroppedInv, [Next]_vars
  PROVE  ForgetReads' /\ DroppedInv'
<1> USE DEF Base, TypeOK, ForgetReads, DroppedInv, tmux, locks, history
\* A step that only moves one process, which reads nothing.
<1>q. ASSUME UNCHANGED <<tmux, saved, dropped>>, NEW p \in Procs,
             \A r \in Procs \ {p} : pc'[r] = pc[r] /\ snap'[r] = snap[r] /\ arg'[r] = arg[r],
             \/ pc'[p] \notin Reading
             \/ pc[p] \in Reading /\ arg'[p] = arg[p] /\ snap'[p] = snap[p]
      PROVE  ForgetReads' /\ DroppedInv'
  BY <1>q
<1>1. ASSUME NEW x \in Panes, NEW v \in Value, Edit(x, v) PROVE ForgetReads' /\ DroppedInv'
  <2>1. ForgetReads'
    BY <1>1 DEF Edit, Announce, Reading
  <2>2. DroppedInv'
    BY <1>1 DEF Edit, Announce, Reading, Snapshot
  <2> QED
    BY <2>1, <2>2
<1>2. ASSUME NEW x \in Panes, ServerStart(x) PROVE ForgetReads' /\ DroppedInv'
  BY <1>2 DEF ServerStart, Announce, Reading, Snapshot
<1>3. CASE ServerExit \/ MarkReady
  BY <1>3 DEF ServerExit, MarkReady, Announce, Reading, Empty
<1>4. CASE ShutdownBegins \/ UNCHANGED vars
  BY <1>4 DEF ShutdownBegins, vars
<1>5. CASE Reboot
  BY <1>5 DEF Reboot, Reading, Empty
<1>6. ASSUME NEW p \in Procs, Abort(p) \/ Stopping(p) \/ EndIdle(p)
      PROVE  ForgetReads' /\ DroppedInv'
  BY <1>6, <1>q DEF Abort, Stopping, Forgot, EndIdle, End, Reading
<1>7. ASSUME NEW p \in Procs,
             \/ Tick(p) \/ Coalesce(p) \/ Settle(p) \/ Checked(p) \/ Unheard(p) \/ StartIdle(p)
             \/ StartRestore(p) \/ TryQueue(p) \/ HoldQueue(p) \/ Acquire(p)
             \/ Unqueue(p) \/ LeaveQueue(p)
      PROVE  ForgetReads' /\ DroppedInv'
  BY <1>7, <1>q DEF Tick, Coalesce, Settle, Checked, Unheard, StartIdle, StartRestore, Goto, TryQueue,
       HoldQueue, Acquire, Unqueue, LeaveQueue, Reading
<1>8. ASSUME NEW p \in Procs, NEW x \in Panes, Forget(p, x) PROVE ForgetReads' /\ DroppedInv'
  <2>1. ForgetReads'
    BY <1>8 DEF Forget, Goto, Reading
  <2>2. DroppedInv'
    BY <1>8 DEF Forget, Goto, Reading
  <2> QED
    BY <2>1, <2>2
<1>9. ASSUME NEW p \in Procs, Read(p) PROVE ForgetReads' /\ DroppedInv'
  <2>1. CASE ~NoServer /\ server = "ready"
    <3>1. /\ snap' = [snap EXCEPT ![p] = Kept] /\ UNCHANGED <<tmux, saved, dropped, arg>>
          /\ pc' = [pc EXCEPT ![p] = "build"]
      BY <2>1, <1>9 DEF Read, Goto
    <3>2. \A x \in Panes : x \in forgotten \/ live[x] = Absent => Kept[x] = Absent
      BY DEF Kept
    <3>3. ForgetReads'
      BY <3>1, <3>2
    <3>4. DroppedInv'
      BY <3>1, <3>2
    <3> QED
      BY <3>3, <3>4
  <2>2. CASE ~NoServer /\ server # "ready" /\ arg[p] # Nobody
    BY <2>2, <1>9, <1>q DEF Read, Goto, End, Reading
  <2>3. CASE NoServer \/ (server # "ready" /\ arg[p] = Nobody)
    <3>1. arg[p] \notin forgotten    \* no server, no mark
      BY <2>3 DEF NoServer, ServerHasPanes, MarksLive, Empty
    <3>2. UNCHANGED dropped
      BY <2>3, <3>1, <1>9 DEF Read, Forgot
    <3> QED
      BY <2>3, <3>2, <1>9, <1>q DEF Read, End, Reading
  <2> QED
    BY <2>1, <2>2, <2>3
<1>10. ASSUME NEW p \in Procs, Build(p) PROVE ForgetReads' /\ DroppedInv'
  <2>1. CASE server = "down"
    <3>1. arg[p] \notin forgotten
      BY <2>1 DEF ServerHasPanes, MarksLive, Empty
    <3>2. UNCHANGED dropped
      BY <2>1, <3>1, <1>10 DEF Build, Forgot
    <3> QED
      BY <2>1, <3>2, <1>10, <1>q DEF Build, End, Reading
  <2>2. CASE server # "down"
    <3>1. /\ pc[p] = "build" /\ pc' = [pc EXCEPT ![p] = "check"]
          /\ UNCHANGED <<tmux, saved, dropped, arg>>
          /\ \A r \in Procs \ {p} : snap'[r] = snap[r]
      BY <2>2, <1>10 DEF Build, Goto
    <3>2. \A x \in Panes : snap[p][x] = Absent => snap'[p][x] = Absent
      BY <2>2, <1>10 DEF Build
    <3>3. pc[p] \in Reading
      BY <3>1 DEF Reading
    <3> QED
      BY <3>1, <3>2, <3>3
  <2> QED
    BY <2>1, <2>2
<1>11. ASSUME NEW p \in Procs, Unchanged(p) \/ Write(p) \/ Drop(p)
       PROVE  ForgetReads' /\ DroppedInv'
  <2>1. /\ UNCHANGED tmux /\ pc' = [pc EXCEPT ![p] = "idle"]
        /\ snap' = [snap EXCEPT ![p] = Empty] /\ arg' = [arg EXCEPT ![p] = Nobody]
        /\ dropped' \subseteq dropped \cup ({arg[p]} \cap forgotten)
    BY <1>11 DEF Unchanged, Write, Drop, Commit, Forgot, End
  <2>2. \A r \in Procs : pc'[r] \notin Reading    \* p had the save lock
    BY <1>11, <2>1 DEF Unchanged, Write, Drop, LocksHeld, InSave, Reading
  <2>3. ForgetReads'
    BY <2>2
  <2>4. \A x \in dropped' : saved'[x] = Absent
    <3>1. CASE Unchanged(p) \/ Write(p)
      <4>1. saved' = snap[p] /\ pc[p] \in Reading
        BY <3>1 DEF Unchanged, Write, Reading
      <4> QED
        BY <4>1, <2>1
    <3>2. CASE Drop(p)
      <4>1. arg[p] \in Panes /\ saved' = [saved EXCEPT ![arg[p]] = Absent]
        BY <3>2 DEF Drop, DropNamesPane
      <4> QED
        BY <4>1, <2>1 DEF Snapshot
    <3> QED
      BY <1>11, <3>1, <3>2
  <2>5. DroppedInv'
    BY <2>1, <2>2, <2>4
  <2> QED
    BY <2>3, <2>5
<1>12. ASSUME NEW p \in Procs, NEW x \in Panes, RestorePane(p, x)
       PROVE  ForgetReads' /\ DroppedInv'
  BY <1>12 DEF RestorePane, Reading, Snapshot
<1>13. ASSUME NEW p \in Procs, EndRestore(p) PROVE ForgetReads' /\ DroppedInv'
  BY <1>13 DEF EndRestore, Reading
<1> QED
  BY <1>1, <1>2, <1>3, <1>4, <1>5, <1>6, <1>7, <1>8, <1>9, <1>10, <1>11, <1>12, <1>13
     DEF Next, Environment, Working, Saving

\* A forgotten session stays out of the snapshot, when it is still there as
\* its forget returns and the machine runs: a snapshot in flight then was
\* read after the session was marked, since the save lock covers both the
\* read and the write.
THEOREM ForgottenSessionsStayOut == Spec => []ForgottenStaysOut
<1>1. Init => ForgetReads /\ DroppedInv
  BY DEF Init, ForgetReads, DroppedInv, Reading
<1>2. Base /\ ForgetReads /\ DroppedInv /\ [Next]_vars => ForgetReads' /\ DroppedInv'
  BY DroppedNext
<1>3. DroppedInv => ForgottenStaysOut
  BY DEF DroppedInv, ForgottenStaysOut
<1> QED
  BY <1>1, <1>2, <1>3, BaseInvariant, PTL DEF Spec
-----------------------------------------------------------------------------
LEMMA LosesTransitive ==
  ASSUME NEW a \in Snapshot, NEW b \in Snapshot, NEW c \in Snapshot,
         ~Loses(a, b), ~Loses(b, c)
  PROVE  ~Loses(a, c)
BY DEF Loses

LEMMA GuardedNext ==
  ASSUME Base, GuardedInv, [Next]_vars
  PROVE  GuardedInv'
<1> SUFFICES ASSUME machine' = "stopping" PROVE GuardedInv'
  BY DEF GuardedInv
<1> USE DEF Base, TypeOK, GuardedInv, tmux, locks, history
\* Nothing that matters changes, except that a process may stop writing.
<1>q. ASSUME UNCHANGED <<machine, saved, guarded>>,
             \A p \in Procs : pc'[p] = "write" => pc[p] = "write" /\ snap'[p] = snap[p]
      PROVE  GuardedInv'
  BY <1>q DEF Loses
<1>1. ASSUME NEW x \in Panes, \/ ServerStart(x) \/ \E v \in Value : Edit(x, v)
      PROVE  GuardedInv'
  BY <1>1, <1>q DEF Edit, ServerStart, Announce
<1>2. CASE ServerExit \/ MarkReady \/ UNCHANGED vars
  BY <1>2, <1>q DEF ServerExit, MarkReady, Announce, vars
<1>3. CASE ShutdownBegins
  <2>1. \A x \in Panes : guarded'[x] # Absent => guarded'[x] = saved[x]
    BY <1>3 DEF ShutdownBegins
  <2>2. \A p \in Procs, x \in Panes :
            pc[p] = "write" /\ guarded'[x] # Absent => guarded'[x] = snap[p][x]
    BY <1>3 DEF ShutdownBegins, Reading
  <2>3. Absent \notin Commands
    OBVIOUS
  <2>4. ~Loses(guarded', saved')
    BY <1>3, <2>1, <2>3 DEF ShutdownBegins, Loses
  <2>5. \A p \in Procs : pc'[p] = "write" => ~Loses(guarded', snap'[p])
    BY <1>3, <2>2, <2>3 DEF ShutdownBegins, Loses
  <2> QED
    BY <2>4, <2>5
<1>4. CASE Reboot
  BY <1>4 DEF Reboot
<1>5. ASSUME NEW p \in Procs, Abort(p) \/ Stopping(p) \/ EndIdle(p) \/ Unchanged(p)
      PROVE  GuardedInv'
  BY <1>5, <1>q DEF Abort, Stopping, EndIdle, Unchanged, Commit, End
<1>6. ASSUME NEW p \in Procs,
             \/ Tick(p) \/ Coalesce(p) \/ Settle(p) \/ StartIdle(p)
             \/ StartRestore(p) \/ TryQueue(p) \/ HoldQueue(p) \/ Acquire(p)
             \/ Unqueue(p) \/ LeaveQueue(p) \/ EndRestore(p)
             \/ \E x \in Panes : Forget(p, x) \/ RestorePane(p, x)
      PROVE  GuardedInv'
  BY <1>6, <1>q DEF Tick, Coalesce, Settle, StartIdle, StartRestore, Forget, Goto, TryQueue,
       HoldQueue, Acquire, Unqueue, LeaveQueue, RestorePane, EndRestore
<1>7. ASSUME NEW p \in Procs, Read(p) \/ Build(p) PROVE GuardedInv'
  BY <1>7, <1>q DEF Read, Build, Goto, End
<1>8. ASSUME NEW p \in Procs, Checked(p) PROVE GuardedInv'
  <2>1. ~Loses(saved, snap[p]) /\ machine = "stopping" /\ UNCHANGED <<saved, snap, guarded>>
    BY <1>8 DEF Checked
  <2>2. ~Loses(guarded, snap[p])
    BY <2>1, LosesTransitive
  <2> QED
    BY <1>8, <2>1, <2>2 DEF Checked, Goto
<1>9. ASSUME NEW p \in Procs, Write(p) PROVE GuardedInv'
  BY <1>9 DEF Write, Commit, End
<1>10. ASSUME NEW p \in Procs, Drop(p) PROVE GuardedInv'
  <2>1. /\ machine = "stopping" /\ arg[p] \in Panes
        /\ saved' = [saved EXCEPT ![arg[p]] = Absent]
        /\ guarded' = [guarded EXCEPT ![arg[p]] = Absent]
    BY <1>10 DEF Drop, DropNamesPane
  <2>2. Absent \notin Commands
    OBVIOUS
  <2>3. ASSUME NEW s \in Snapshot, NEW t \in Snapshot, ~Loses(guarded, s),
               \A x \in Panes \ {arg[p]} : t[x] = s[x]
        PROVE  ~Loses(guarded', t)
    BY <2>1, <2>2, <2>3 DEF Loses, Snapshot
  <2>4. saved' \in Snapshot /\ \A x \in Panes \ {arg[p]} : saved'[x] = saved[x]
    BY <2>1 DEF Snapshot, Value
  <2>5. ~Loses(guarded', saved')
    BY <2>1, <2>3, <2>4
  <2>6. \A q \in Procs : pc'[q] = "write" => pc[q] = "write" /\ snap'[q] = snap[q]
    BY <1>10 DEF Drop, End
  <2> QED
    BY <2>1, <2>3, <2>5, <2>6
<1>11. ASSUME NEW p \in Procs, Unheard(p) PROVE GuardedInv'
  <2>1. /\ machine = "stopping" /\ pc[p] = "check" /\ UNCHANGED <<saved, snap>>
        /\ pc' = [pc EXCEPT ![p] = "write"]
        /\ guarded' = [x \in Panes |->
               IF \/ saved[x] # Absent /\ snap[p][x] = Absent
                  \/ saved[x] \in Commands /\ snap[p][x] \notin Commands
               THEN Absent ELSE guarded[x]]
    BY <1>11 DEF Unheard, Goto
  <2>2. \A x \in Panes : guarded'[x] = Absent \/ guarded'[x] = guarded[x]
    BY <2>1
  <2>3. ASSUME NEW s \in Snapshot, ~Loses(guarded, s) PROVE ~Loses(guarded', s)
    BY <2>2, <2>3 DEF Loses
  <2>4. ~Loses(guarded', snap[p])
    BY <2>1 DEF Loses
  <2>5. \A q \in Procs : pc'[q] = "write" => q = p \/ pc[q] = "write"
    BY <2>1
  <2> QED
    BY <2>1, <2>3, <2>4, <2>5
<1> QED
  BY <1>1, <1>2, <1>3, <1>4, <1>5, <1>6, <1>7, <1>8, <1>9, <1>10, <1>11
     DEF Next, Environment, Working, Saving

\* A shutdown takes nothing out of the snapshot that systemd was asked about
\* and answered: a save that would lose a pane or a command asks after
\* reading tmux, so that one that read a dying server is told, and one
\* already told to go on read a whole one.
THEOREM ShutdownLosesNothing == Spec => []ShutdownKeeps
<1>1. Init => GuardedInv
  BY DEF Init, GuardedInv
<1>2. Base /\ GuardedInv /\ [Next]_vars => GuardedInv'
  BY GuardedNext
<1>3. GuardedInv => ShutdownKeeps
  BY DEF GuardedInv, ShutdownKeeps
<1> QED
  BY <1>1, <1>2, <1>3, BaseInvariant, PTL DEF Spec
-----------------------------------------------------------------------------
(* The refinement. *)

HType ==
    /\ shown \in [Panes -> SUBSET Value]
    /\ fresh \in [Panes -> SUBSET Value]

\* What holds now has been so since the save in flight read tmux, and that
\* has been so since the newest snapshot was read.
Ordered == \A x \in Panes : Now[x] \subseteq fresh[x] /\ fresh[x] \subseteq shown[x]

\* What a snapshot in flight says was so after it was read, or is the shell
\* of a pane whose program is gone.
SnapFresh ==
    \A p \in Procs : pc[p] \in Reading =>
        \A x \in Panes : \/ snap[p][x] \in fresh[x]
                         \/ snap[p][x] = Shell /\ ~(fresh[x] \subseteq {Absent})

HInv == Base /\ HType /\ Ordered /\ SnapFresh

LEMMA NowType == TypeOK => Now \in [Panes -> (SUBSET Value) \ {{}}]
<1> SUFFICES ASSUME TypeOK PROVE Now \in [Panes -> (SUBSET Value) \ {{}}]
  OBVIOUS
<1>1. \A x \in Panes : live[x] \in Value /\ Kept[x] \in Value
  BY KeptType DEF TypeOK, Snapshot
<1>2. \A x \in Panes : {live[x], Kept[x]} \in (SUBSET Value) \ {{}}
  BY <1>1
<1> QED
  BY <1>2 DEF Now

LEMMA NowTypePrime == TypeOK' => Now' \in [Panes -> (SUBSET Value) \ {{}}]
<1> SUFFICES ASSUME TypeOK' PROVE Now' \in [Panes -> (SUBSET Value) \ {{}}]
  OBVIOUS
<1>1. \A x \in Panes : live'[x] \in Value /\ Kept'[x] \in Value
  BY DEF TypeOK, Snapshot, Kept, Value
<1>2. \A x \in Panes : {live'[x], Kept'[x]} \in (SUBSET Value) \ {{}}
  BY <1>1
<1> QED
  BY <1>2 DEF Now

\* How a process comes to have a snapshot in flight.
LEMMA StepsIntoReading ==
  ASSUME TypeOK, Next, NEW p \in Procs, pc'[p] \in Reading
  PROVE  \/ pc[p] \in Reading /\ snap'[p] = snap[p]
         \/ Read(p) /\ pc[p] = "read" /\ pc'[p] = "build" /\ snap'[p] = Kept
         \/ Build(p) /\ pc[p] = "build" /\ pc'[p] = "check"
<1> USE DEF TypeOK, tmux, locks, history, Reading
<1>1. ASSUME NEW x \in Panes, \/ ServerStart(x) \/ \E v \in Value : Edit(x, v)
      PROVE  pc[p] \in Reading /\ snap'[p] = snap[p]
  BY <1>1 DEF Edit, ServerStart, Announce
<1>2. CASE ServerExit \/ MarkReady \/ ShutdownBegins \/ Reboot
  BY <1>2 DEF ServerExit, MarkReady, ShutdownBegins, Reboot, Announce
<1>3. ASSUME NEW q \in Procs,
             \/ Abort(q) \/ Stopping(q) \/ EndIdle(q) \/ Unchanged(q) \/ Write(q) \/ Drop(q)
      PROVE  pc[p] \in Reading /\ snap'[p] = snap[p]
  BY <1>3 DEF Abort, Stopping, EndIdle, Unchanged, Write, Drop, Commit, End
<1>4. ASSUME NEW q \in Procs,
             \/ Tick(q) \/ Coalesce(q) \/ Settle(q) \/ Checked(q) \/ Unheard(q) \/ StartIdle(q)
             \/ StartRestore(q) \/ TryQueue(q) \/ HoldQueue(q) \/ Acquire(q)
             \/ Unqueue(q) \/ LeaveQueue(q)
             \/ EndRestore(q) \/ \E x \in Panes : Forget(q, x) \/ RestorePane(q, x)
      PROVE  pc[p] \in Reading /\ snap'[p] = snap[p]
  BY <1>4 DEF Tick, Coalesce, Settle, Checked, Unheard, StartIdle, StartRestore, Forget, Goto, TryQueue,
       HoldQueue, Acquire, Unqueue, LeaveQueue, RestorePane, EndRestore
<1>5. ASSUME NEW q \in Procs, Read(q)
      PROVE  \/ pc[p] \in Reading /\ snap'[p] = snap[p]
             \/ Read(p) /\ pc[p] = "read" /\ pc'[p] = "build" /\ snap'[p] = Kept
  BY <1>5 DEF Read, Goto, End
<1>6. ASSUME NEW q \in Procs, Build(q)
      PROVE  \/ pc[p] \in Reading /\ snap'[p] = snap[p]
             \/ Build(p) /\ pc[p] = "build" /\ pc'[p] = "check"
  BY <1>6 DEF Build, Goto, End
<1> QED
  BY <1>1, <1>2, <1>3, <1>4, <1>5, <1>6 DEF Next, Environment, Working, Saving

LEMMA ReadStepReads ==
  ASSUME TypeOK, Next, ReadStep
  PROVE  UNCHANGED tmux /\ Now' = Now
<1>1. PICK p \in Procs : pc[p] = "read" /\ pc'[p] = "build"
  BY DEF ReadStep, Moves
<1>2. Read(p)
  BY <1>1, StepsIntoReading DEF Reading
<1> QED
  BY <1>2 DEF Read, tmux, Now, Kept

LEMMA CommitSaves ==
  ASSUME Base, HType, SnapFresh, CommitStep
  PROVE  /\ UNCHANGED tmux /\ Now' = Now
         /\ \A x \in Panes : \/ saved'[x] \in fresh[x]
                             \/ saved'[x] = Shell /\ ~(fresh[x] \subseteq {Absent})
<1>1. PICK p \in Procs : Unchanged(p) \/ Write(p)
  BY DEF CommitStep
<1>2. saved' = snap[p] /\ pc[p] \in Reading /\ UNCHANGED tmux
  BY <1>1 DEF Unchanged, Write, Commit, Reading
<1> QED
  BY <1>2 DEF SnapFresh, tmux, Now, Kept

\* Only a commit and a drop write the snapshot.
LEMMA OtherStepsKeepSaved ==
  ASSUME Next, ~CommitStep
  PROVE  saved' = saved \/ \E p \in Procs : Drop(p)
BY DEF Next, Environment, Working, Saving, CommitStep, Edit, ServerStart, ServerExit, MarkReady,
   ShutdownBegins, Reboot, Abort, StartRestore, StartIdle, Forget, Tick, TryQueue, Coalesce,
   Settle, Acquire, Unqueue, Read, Build, Stopping, Checked, Unheard, EndRestore, HoldQueue, LeaveQueue,
   EndIdle, RestorePane

LEMMA HNextInv == HInv /\ [HNext]_<<vars, shown, fresh>> => HInv'
<1> SUFFICES ASSUME HInv, [HNext]_<<vars, shown, fresh>> PROVE HInv'
  OBVIOUS
<1>1. CASE UNCHANGED <<vars, shown, fresh>>
  <2>1. Base'
    BY <1>1, BaseNext DEF HInv
  <2> QED
    BY <1>1, <2>1 DEF HInv, HType, Ordered, SnapFresh, Now, Kept, vars
<1>2. CASE HNext
  <2>1. Base'
    BY <1>2, BaseNext DEF HInv, HNext
  <2>t. TypeOK /\ TypeOK' /\ LocksHeld' /\ Base /\ Next
    BY <1>2, <2>1 DEF HInv, Base, HNext
  <2>m. Now \in [Panes -> (SUBSET Value) \ {{}}] /\ Now' \in [Panes -> (SUBSET Value) \ {{}}]
    BY <2>t, NowType, NowTypePrime
  <2>n. Now \in [Panes -> SUBSET Value] /\ Now' \in [Panes -> SUBSET Value]
    BY <2>m
  <2>2. HType'
    BY <1>2, <2>n DEF HNext, HInv, HType
  <2>c. CommitStep => Now' = Now
    BY CommitSaves DEF HInv
  <2>r. ReadStep => Now' = Now
    BY <2>t, ReadStepReads
  <2>3. Ordered'
    BY <1>2, <2>c, <2>r DEF HNext, HInv, HType, Ordered
  <2>4. ASSUME NEW p \in Procs, pc'[p] \in Reading, NEW x \in Panes
        PROVE  \/ snap'[p][x] \in fresh'[x]
               \/ snap'[p][x] = Shell /\ ~(fresh'[x] \subseteq {Absent})
    <3>1. CASE Read(p) /\ pc[p] = "read" /\ pc'[p] = "build" /\ snap'[p] = Kept
      <4>1. ReadStep
        BY <3>1 DEF ReadStep, Moves
      <4>2. fresh'[x] = Now[x]
        BY <1>2, <4>1 DEF HNext
      <4> QED
        BY <3>1, <4>2 DEF Now
    <3>2. CASE pc[p] \in Reading
      <4>1. ~ReadStep
        <5> SUFFICES ASSUME NEW q \in Procs, pc[q] = "read", pc'[q] = "build" PROVE FALSE
          BY DEF ReadStep, Moves
        <5> QED    \* both would hold the save lock
          BY <3>2, <2>t DEF Base, LocksHeld, InSave, Reading
      <4>2. fresh[x] \subseteq fresh'[x] /\ Now'[x] \subseteq fresh'[x]
        BY <1>2, <4>1 DEF HNext
      <4>3. \/ snap[p][x] \in fresh[x]
            \/ snap[p][x] = Shell /\ ~(fresh[x] \subseteq {Absent})
        BY <3>2 DEF HInv, SnapFresh
      <4>4. CASE snap'[p] = snap[p]
        BY <4>2, <4>3, <4>4
      <4>5. CASE Build(p) /\ pc[p] = "build" /\ pc'[p] = "check"
        <5>1. snap'[p][x] = IF snap[p][x] \in {Absent} \cup Commands THEN snap[p][x]
                            ELSE IF live[x] \in Programs THEN live[x] ELSE Shell
          <6> DEFINE built == [y \in Panes |->
                  IF snap[p][y] \in {Absent} \cup Commands THEN snap[p][y]
                  ELSE IF live[y] \in Programs THEN live[y] ELSE Shell]
          <6>1. server # "down"
            BY <4>5, <2>t DEF Build, End, TypeOK
          <6>2. snap' = [snap EXCEPT ![p] = built]
            BY <4>5, <6>1 DEF Build
          <6> QED
            BY <6>2, <2>t DEF TypeOK
        <5>2. CASE snap'[p][x] = snap[p][x]
          BY <5>2, <4>2, <4>3
        <5>3. CASE snap'[p][x] # snap[p][x]
          <6>1. snap[p][x] # Absent /\ snap'[p][x] \in {live[x], Shell}
            BY <5>1, <5>3
          <6>2. ~(fresh'[x] \subseteq {Absent})
            BY <6>1, <4>2, <4>3
          <6>3. live[x] \in fresh[x]
            BY DEF HInv, Ordered, Now
          <6> QED
            BY <6>1, <6>2, <6>3, <4>2
        <5> QED
          BY <5>2, <5>3
      <4> QED
        BY <2>4, <2>t, <3>2, <4>4, <4>5, StepsIntoReading DEF Reading
    <3> QED
      BY <2>4, <2>t, <3>1, <3>2, StepsIntoReading DEF Reading
  <2> QED
    BY <2>1, <2>2, <2>3, <2>4 DEF HInv, SnapFresh
<1> QED
  BY <1>1, <1>2

\* The newest snapshot never goes back: every step of the protocol maps to a
\* step of the register or to none.
THEOREM ProtocolImplementsRegister == HSpec => NeverGoesBack
<1>1. HInit => HInv
  <2> SUFFICES ASSUME HInit PROVE HInv
    OBVIOUS
  <2>1. Base
    BY BaseInit DEF HInit
  <2>2. Now \in [Panes -> SUBSET Value]
    BY <2>1, NowType DEF Base
  <2>3. shown = Now /\ fresh = Now
    BY DEF HInit
  <2>4. HType /\ Ordered
    BY <2>2, <2>3 DEF HType, Ordered
  <2>5. SnapFresh
    BY DEF HInit, Init, SnapFresh, Reading
  <2> QED
    BY <2>1, <2>4, <2>5 DEF HInv
<1>2. HInit => Register!Init
  BY TypeInit, NowType DEF HInit, Register!Init, Register!Snapshot, TypeOK, Snapshot
<1>3. HInv /\ [HNext]_<<vars, shown, fresh>> => HInv'
  BY HNextInv
<1>4. HInv /\ HInv' /\ [HNext]_<<vars, shown, fresh>> => [Register!Next]_<<Now, saved, shown>>
  <2> SUFFICES ASSUME HInv, HInv', [HNext]_<<vars, shown, fresh>>
               PROVE  [Register!Next]_<<Now, saved, shown>>
    OBVIOUS
  <2>t. /\ saved \in Snapshot /\ saved' \in Snapshot /\ HType /\ HType' /\ Base
        /\ TypeOK /\ TypeOK'
    BY DEF HInv, Base, TypeOK
  <2>n. Now \in [Panes -> (SUBSET Value) \ {{}}] /\ Now' \in [Panes -> (SUBSET Value) \ {{}}]
    BY <2>t, NowType, NowTypePrime
  <2>1. CASE UNCHANGED <<vars, shown, fresh>>
    BY <2>1 DEF vars, Now, Kept
  <2>2. CASE HNext /\ CommitStep
    <3>1. Now' = Now /\ \A x \in Panes : saved'[x] \in Register!MaySay(x)
      BY <2>2, <2>t, <2>n, CommitSaves DEF HInv, Ordered, Register!MaySay, HType
    <3>2. shown' = [x \in Panes |-> fresh[x]]
      BY <2>2 DEF HNext
    <3>3. Register!Save
      BY <3>1, <3>2, <2>t DEF Register!Save, Register!Snapshot, Snapshot, HInv, HType, Ordered
    <3> QED
      BY <3>3 DEF Register!Next
  <2>3. CASE HNext /\ ~CommitStep
    <3>1. shown' = [x \in Panes |-> shown[x] \cup Now'[x]]
      BY <2>3 DEF HNext
    <3>2. CASE saved' = saved
      <4>1. Register!Change
        BY <3>1, <3>2, <2>n DEF Register!Change
      <4> QED
        BY <4>1 DEF Register!Next
    <3>3. ASSUME NEW p \in Procs, Drop(p) PROVE Register!Drop
      <4>1. Now' = Now /\ arg[p] \in Panes /\ saved' = [saved EXCEPT ![arg[p]] = Absent]
        BY <3>3, <2>t DEF Drop, tmux, Now, Kept, Base, DropNamesPane
      <4>2. shown' = shown
        BY <3>1, <4>1, <2>t DEF HInv, Ordered, HType
      <4> QED
        BY <4>1, <4>2 DEF Register!Drop
    <3> QED
      BY <2>3, <3>2, <3>3, OtherStepsKeepSaved DEF HNext, Register!Next
  <2> QED
    BY <2>1, <2>2, <2>3
<1> QED
  BY <1>1, <1>2, <1>3, <1>4, PTL DEF HSpec, NeverGoesBack, Register!Spec
=============================================================================
