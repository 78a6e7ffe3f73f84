---------------------------- MODULE SaveProtocol ----------------------------
(***************************************************************************)
(* The protocol by which concurrent tmux-revive processes keep the newest  *)
(* snapshot up to date: `save' (from tmux hooks, zsh hooks and the         *)
(* scrollback timer), `forget', `restore' and WaitIdle, over the "queue"   *)
(* and "save" lock files, next to a tmux server that users and a shutdown  *)
(* change at any moment.                                                   *)
(*                                                                         *)
(* A pane stands for a session with one pane.  What a snapshot says of it  *)
(* is a Value: Absent, a plain Shell, the @revive_cmd it carries, or the   *)
(* restorable program it runs.                                             *)
(***************************************************************************)
EXTENDS Naturals

CONSTANTS
    Procs,     \* tmux-revive processes (a slot is reused when one ends)
    Idlers,    \* the processes among them that run WaitIdle
    Panes,     \* panes, by @revive_pane
    Commands,  \* values of @revive_cmd
    Programs,  \* restorable programs a pane may run
    Nobody     \* the holder of a free lock; also "no pane"

Absent == "absent"
Shell == "shell"
Value == {Absent, Shell} \cup Commands \cup Programs
Snapshot == [Panes -> Value]
Empty == [x \in Panes |-> Absent]

ASSUME ConstantsAssumption ==
    /\ Nobody \notin Procs \cup Panes
    /\ Idlers \subseteq Procs
    /\ {Absent, Shell} \cap (Commands \cup Programs) = {}
    /\ Commands \cap Programs = {}

VARIABLES
    server,     \* "down", "unready" or "ready" (@revive_ready is set)
    live,       \* what each pane of the server holds now
    forgotten,  \* panes whose session has @revive_forgotten
    machine,    \* "running" or "stopping", as systemd says it
    saved,      \* the newest snapshot in the store
    queue,      \* holder of queue.lock
    save,       \* holder of save.lock
    pc,         \* where each process is
    arg,        \* the session a process forgets, Nobody for the others
    snap,       \* the snapshot a process has built, or restores
    changes,    \* history: "missed" when a change went by that no save was
                \* asked for, or whose save failed or met a WaitIdle, and no
                \* later save has caught up; "covered" otherwise
    dropped,    \* history: sessions whose forget has returned without an
                \* error while they were there and the machine ran
    guarded     \* history: what the snapshot held when the shutdown began,
                \* without what was forgotten or lost unheard since

vars == <<server, live, forgotten, machine, saved, queue, save, pc, arg,
          snap, changes, dropped, guarded>>
tmux == <<server, live, forgotten, machine>>
locks == <<queue, save>>
history == <<changes, dropped, guarded>>

\* Where a process holds each lock.
InQueue == {"settle", "wait", "unqueue", "heldqueue"}
Reading == {"build", "check", "write"}
InSave == {"unqueue", "read", "drop", "create", "created", "heldsave"} \cup Reading
\* A save that has not read tmux yet, and will.
BeforeRead == {"start", "settle", "wait", "unqueue", "fwait", "read"}
Location == {"idle", "start", "fwait", "rwait", "iwait", "swait"}
            \cup InQueue \cup InSave

\* Mutant of Kept: a forgotten session is kept.
KeptAll == live

\* What a save would write for the panes as they are: build leaves the
\* sessions marked as forgotten out.
Kept == [x \in Panes |-> IF x \in forgotten THEN Absent ELSE live[x]]

\* readPanes finds no pane: no server, or one with no sessions.
NoServer == server = "down" \/ live = Empty

\* snapshot.Lost and snapshot.LostCommands are not both empty.
Loses(prev, next) ==
    \E x \in Panes :
        \/ prev[x] # Absent /\ next[x] = Absent
        \/ prev[x] \in Commands /\ next[x] \notin Commands
-----------------------------------------------------------------------------
Init ==
    /\ server = "down"
    /\ live = Empty
    /\ forgotten = {}
    /\ machine = "running"
    /\ saved \in Snapshot
    /\ queue = Nobody
    /\ save = Nobody
    /\ pc = [p \in Procs |-> "idle"]
    /\ arg = [p \in Procs |-> Nobody]
    /\ snap = [p \in Procs |-> Empty]
    /\ changes = "covered"
    /\ dropped = {}
    /\ guarded = Empty

\* A hook or the timer starts a save in process p, or the change goes by
\* unannounced (a program that starts after preexec's save has read, a
\* server whose configuration was not loaded): only the timer sees it.
Announce ==
    \/ /\ \E p \in Procs : pc[p] = "idle" /\ pc' = [pc EXCEPT ![p] = "start"]
       /\ UNCHANGED changes
    \/ changes' = "missed" /\ UNCHANGED pc

\* A pane nothing refers to any more: ids are random, so a new pane never
\* has the id of an older one.
Fresh(x) ==
    /\ live[x] = Absent /\ saved[x] = Absent
    /\ \A p \in Procs : snap[p][x] = Absent /\ arg[p] # x

\* A user opens pane x, changes what it runs, or closes it; the last one
\* closed ends the server.
Edit(x, v) ==
    /\ server # "down"
    /\ v # live[x]
    /\ live[x] = Absent => Fresh(x)
    /\ live' = [live EXCEPT ![x] = v]
    /\ forgotten' = IF v = Absent THEN forgotten \ {x} ELSE forgotten
    /\ server' = IF live' = Empty THEN "down" ELSE server
    /\ dropped' = IF live[x] = Absent THEN dropped \ {x} ELSE dropped
    /\ Announce
    /\ UNCHANGED <<machine, saved, locks, arg, snap, guarded>>

\* Someone starts a server outside tmux-revive, with a pane of its own.
ServerStart(x) ==
    /\ server = "down" /\ Fresh(x)
    /\ server' = "unready"
    /\ live' = [live EXCEPT ![x] = Shell]
    /\ dropped' = dropped \ {x}
    /\ Announce
    /\ UNCHANGED <<forgotten, machine, saved, locks, arg, snap, guarded>>

ServerExit ==
    /\ server # "down"
    /\ server' = "down"
    /\ live' = Empty
    /\ forgotten' = {}
    /\ UNCHANGED <<machine, saved, locks, pc, arg, snap, history>>

\* attach finds live work and marks the server ready; tmux-init does and
\* saves.
MarkReady ==
    /\ server = "unready" /\ live # Empty
    /\ server' = "ready"
    /\ Announce
    /\ UNCHANGED <<live, forgotten, machine, saved, locks, arg, snap, dropped, guarded>>

\* systemd begins to stop the machine.  guarded is what the newest snapshot
\* and the save in flight, if one has read tmux, agree on with the server.
ShutdownBegins ==
    /\ machine = "running"
    /\ machine' = "stopping"
    /\ guarded' = [x \in Panes |->
           IF saved[x] = Kept[x] /\ \A p \in Procs : pc[p] \in Reading => snap[p][x] = saved[x]
           THEN saved[x] ELSE Absent]
    /\ UNCHANGED <<server, live, forgotten, saved, locks, pc, arg, snap, changes, dropped>>

\* The machine goes down with every process, and comes up again: flock
\* locks go with their holders.
Reboot ==
    /\ machine = "stopping"
    /\ server' = "down" /\ live' = Empty /\ forgotten' = {} /\ machine' = "running"
    /\ queue' = Nobody /\ save' = Nobody
    /\ pc' = [p \in Procs |-> "idle"]
    /\ arg' = [p \in Procs |-> Nobody]
    /\ snap' = [p \in Procs |-> Empty]
    /\ guarded' = Empty
    /\ UNCHANGED <<saved, changes, dropped>>
-----------------------------------------------------------------------------
Goto(p, from, to) == pc[p] = from /\ pc' = [pc EXCEPT ![p] = to]

\* Mutant of End: the queue lock outlives its holder.
EndQueued(p) ==
    /\ pc' = [pc EXCEPT ![p] = "idle"]
    /\ arg' = [arg EXCEPT ![p] = Nobody]
    /\ snap' = [snap EXCEPT ![p] = Empty]
    /\ queue' = queue
    /\ save' = IF save = p THEN Nobody ELSE save

\* Process p is over: its locks and locals go.
End(p) ==
    /\ pc' = [pc EXCEPT ![p] = "idle"]
    /\ arg' = [arg EXCEPT ![p] = Nobody]
    /\ snap' = [snap EXCEPT ![p] = Empty]
    /\ queue' = IF queue = p THEN Nobody ELSE queue
    /\ save' = IF save = p THEN Nobody ELSE save

\* A forget returns without an error.
Forgot(p) ==
    dropped' = IF arg[p] \in forgotten /\ machine = "running" THEN dropped \cup {arg[p]} ELSE dropped

\* Save: TryLock of the queue; a save that finds one waiting leaves.
Tick(p) ==
    /\ Goto(p, "idle", "start")
    /\ UNCHANGED <<tmux, saved, locks, arg, snap, history>>

TryQueue(p) ==
    /\ queue = Nobody
    /\ Goto(p, "start", "settle")
    /\ queue' = p
    /\ UNCHANGED <<tmux, saved, save, arg, snap, history>>

\* Mutant of Coalesce: a save leaves when another is running.
CoalesceRunning(p) ==
    /\ save # Nobody
    /\ Goto(p, "start", "idle")
    /\ UNCHANGED <<tmux, saved, locks, arg, snap, history>>

Coalesce(p) ==
    /\ queue # Nobody
    /\ Goto(p, "start", "idle")
    /\ changes' = IF pc[queue] = "heldqueue" THEN "missed" ELSE changes
    /\ UNCHANGED <<tmux, saved, locks, arg, snap, dropped, guarded>>

Settle(p) ==
    /\ Goto(p, "settle", "wait")
    /\ UNCHANGED <<tmux, saved, locks, arg, snap, history>>

\* Mutant of Acquire: a wait that runs out goes on without the lock.
AcquireAnyway(p) ==
    /\ save' = p
    /\ \/ Goto(p, "wait", "unqueue")
       \/ Goto(p, "fwait", "read")
       \/ Goto(p, "rwait", "create")
       \/ Goto(p, "swait", "heldsave")
    /\ UNCHANGED <<tmux, saved, queue, arg, snap, history>>

\* lockfile.Lock(save), polled by a queued save, a forget and a restore.
Acquire(p) ==
    /\ save = Nobody
    /\ save' = p
    /\ \/ Goto(p, "wait", "unqueue")
       \/ Goto(p, "fwait", "read")
       \/ Goto(p, "rwait", "create")
       \/ Goto(p, "swait", "heldsave")
    /\ UNCHANGED <<tmux, saved, queue, arg, snap, history>>

\* The queue is free again before tmux is read, so that a later change can
\* wait behind this save.
Unqueue(p) ==
    /\ Goto(p, "unqueue", "read")
    /\ queue' = Nobody
    /\ UNCHANGED <<tmux, saved, save, arg, snap, history>>

\* readPanes: one call reads every pane, with the ready mark.
Read(p) ==
    /\ pc[p] = "read"
    /\ IF ~NoServer /\ server = "ready"
       THEN /\ snap' = [snap EXCEPT ![p] = Kept]
            /\ Goto(p, "read", "build")
            /\ UNCHANGED <<locks, arg, dropped>>
       ELSE IF ~NoServer /\ arg[p] # Nobody
       THEN Goto(p, "read", "drop") /\ UNCHANGED <<locks, arg, snap, dropped>>
       ELSE End(p) /\ Forgot(p)
    /\ UNCHANGED <<tmux, saved, changes, guarded>>

\* Mutant of Build: a pane whose program is not found has nobody for it.
BuildNobody(p) ==
    /\ pc[p] = "build"
    /\ IF server = "down"
       THEN End(p) /\ Forgot(p)
       ELSE /\ snap' = [snap EXCEPT ![p] = [x \in Panes |->
                   IF @[x] \in {Absent} \cup Commands THEN @[x]
                   ELSE IF live[x] \in Programs THEN live[x] ELSE Nobody]]
            /\ Goto(p, "build", "check")
            /\ UNCHANGED <<locks, arg, dropped>>
    /\ UNCHANGED <<tmux, saved, changes, guarded>>

\* programs, assignIDs and build: two more calls, then each pane's program
\* is looked up in /proc.  A pane that has gone since runs none.
Build(p) ==
    /\ pc[p] = "build"
    /\ IF server = "down"
       THEN End(p) /\ Forgot(p)
       ELSE /\ snap' = [snap EXCEPT ![p] = [x \in Panes |->
                   IF @[x] \in {Absent} \cup Commands THEN @[x]
                   ELSE IF live[x] \in Programs THEN live[x] ELSE Shell]]
            /\ Goto(p, "build", "check")
            /\ UNCHANGED <<locks, arg, dropped>>
    /\ UNCHANGED <<tmux, saved, changes, guarded>>

\* The end of a save or forget that leaves saved equal to snap.
Commit(p) ==
    /\ changes' = IF snap[p] = Kept THEN "covered" ELSE changes
    /\ Forgot(p)
    /\ End(p)
    /\ UNCHANGED <<tmux, guarded>>

Unchanged(p) ==
    /\ pc[p] = "check" /\ snap[p] = saved
    /\ Commit(p)
    /\ UNCHANGED saved

Stopping(p) ==
    /\ pc[p] = "check" /\ snap[p] # saved
    /\ Loses(saved, snap[p]) /\ machine = "stopping"
    /\ changes' = "missed"
    /\ Forgot(p)
    /\ End(p)
    /\ UNCHANGED <<tmux, saved, guarded>>

\* Mutant of Checked: during shutdown only lost panes count.
CheckedPanes(p) ==
    /\ snap[p] # saved
    /\ ~(machine = "stopping" /\ \E x \in Panes : saved[x] # Absent /\ snap[p][x] = Absent)
    /\ Goto(p, "check", "write")
    /\ UNCHANGED <<tmux, saved, locks, arg, snap, history>>

Checked(p) ==
    /\ snap[p] # saved
    /\ ~(Loses(saved, snap[p]) /\ machine = "stopping")
    /\ Goto(p, "check", "write")
    /\ UNCHANGED <<tmux, saved, locks, arg, snap, history>>

\* SystemdStopping is not told: no systemctl, or none that answers within its
\* second.  What the save is about to lose is not guarded any more.
Unheard(p) ==
    /\ snap[p] # saved
    /\ Loses(saved, snap[p]) /\ machine = "stopping"
    /\ Goto(p, "check", "write")
    /\ guarded' = [x \in Panes |->
           IF \/ saved[x] # Absent /\ snap[p][x] = Absent
              \/ saved[x] \in Commands /\ snap[p][x] \notin Commands
           THEN Absent ELSE guarded[x]]
    /\ UNCHANGED <<tmux, saved, locks, arg, snap, changes, dropped>>

Write(p) ==
    /\ pc[p] = "write"
    /\ saved' = snap[p]
    /\ Commit(p)
-----------------------------------------------------------------------------
\* Forget: mark the session on the server, then lock and save; on a server
\* that is not ready the session leaves the snapshot a restore would use.
Forget(p, x) ==
    /\ server # "down" /\ live[x] # Absent
    /\ \A q \in Procs : arg[q] # x    \* bound: one forget of a session at a time
    /\ forgotten' = forgotten \cup {x}
    /\ arg' = [arg EXCEPT ![p] = x]
    /\ Goto(p, "idle", "fwait")
    /\ UNCHANGED <<server, live, machine, saved, locks, snap, history>>

Drop(p) ==
    /\ pc[p] = "drop"
    /\ saved' = [saved EXCEPT ![arg[p]] = Absent]
    /\ guarded' = [guarded EXCEPT ![arg[p]] = Absent]
    /\ Forgot(p)
    /\ changes' = IF Kept[arg[p]] = Absent THEN changes ELSE "missed"   \* closed and restored meanwhile
    /\ End(p)
    /\ UNCHANGED tmux

\* Restore: the snapshot is loaded first, then the lock is taken; panes the
\* server lacks are made (some may fail), and the server is marked ready
\* before the lock is released.  A restore that made something then saves.
StartRestore(p) ==
    /\ saved # Empty
    /\ snap' = [snap EXCEPT ![p] = saved]
    /\ Goto(p, "idle", "rwait")
    /\ UNCHANGED <<tmux, saved, locks, arg, history>>

RestorePane(p, x) ==
    /\ pc[p] \in {"create", "created"}
    /\ snap[p][x] # Absent /\ live[x] = Absent
    /\ \E v \in {snap[p][x], Shell} : live' = [live EXCEPT ![x] = v]
    /\ server' = IF server = "down" THEN "unready" ELSE server
    /\ pc' = [pc EXCEPT ![p] = "created"]
    /\ changes' = "missed"
    /\ dropped' = dropped \ {x}
    /\ UNCHANGED <<forgotten, machine, saved, locks, arg, snap, guarded>>

EndRestore(p) ==
    /\ pc[p] \in {"create", "created"}
    /\ server' = IF server = "unready" THEN "ready" ELSE server
    /\ save' = Nobody
    /\ snap' = [snap EXCEPT ![p] = Empty]
    /\ IF pc[p] = "created"
       THEN pc' = [pc EXCEPT ![p] = "start"] /\ changes' = "covered"
       ELSE pc' = [pc EXCEPT ![p] = "idle"] /\ changes' = IF server = "unready" THEN "missed" ELSE changes
    /\ UNCHANGED <<live, forgotten, machine, saved, queue, arg, dropped, guarded>>

\* WaitIdle takes and releases the queue lock, then the save lock.
StartIdle(p) ==
    /\ p \in Idlers
    /\ Goto(p, "idle", "iwait")
    /\ UNCHANGED <<tmux, saved, locks, arg, snap, history>>

HoldQueue(p) ==
    /\ queue = Nobody
    /\ queue' = p
    /\ Goto(p, "iwait", "heldqueue")
    /\ UNCHANGED <<tmux, saved, save, arg, snap, history>>

LeaveQueue(p) ==
    /\ Goto(p, "heldqueue", "swait")
    /\ queue' = Nobody
    /\ UNCHANGED <<tmux, saved, save, arg, snap, history>>

EndIdle(p) ==
    /\ pc[p] = "heldsave"
    /\ End(p)
    /\ UNCHANGED <<tmux, saved, history>>

\* A process is killed, its time runs out while it waits, or a tmux call or
\* a file operation fails: every path releases what it holds.
Abort(p) ==
    /\ pc[p] # "idle"
    /\ changes' = "missed"
    /\ End(p)
    /\ UNCHANGED <<tmux, saved, dropped, guarded>>
-----------------------------------------------------------------------------
Environment ==
    \/ \E x \in Panes, v \in Value : Edit(x, v)
    \/ \E x \in Panes : ServerStart(x)
    \/ ServerExit \/ MarkReady \/ ShutdownBegins \/ Reboot
    \/ \E p \in Procs : Abort(p) \/ StartRestore(p) \/ StartIdle(p)
    \/ \E p \in Procs, x \in Panes : Forget(p, x)

Saving(p) ==
    \/ TryQueue(p) \/ Coalesce(p) \/ Settle(p) \/ Acquire(p) \/ Unqueue(p)
    \/ Read(p) \/ Build(p) \/ Unchanged(p) \/ Stopping(p) \/ Checked(p)
    \/ Unheard(p) \/ Write(p)

Working(p) ==
    \/ Saving(p) \/ Drop(p) \/ EndRestore(p) \/ HoldQueue(p) \/ LeaveQueue(p) \/ EndIdle(p)
    \/ \E x \in Panes : RestorePane(p, x)

Next ==
    \/ \E p \in Procs : Tick(p) \/ Working(p)
    \/ Environment

Spec == Init /\ [][Next]_vars

\* The scheduler runs every process that can go on; the scrollback timer
\* starts a save now and then as long as the server lives.
Fairness ==
    /\ \A p \in Procs : WF_vars(Working(p))
    /\ WF_vars(\E p \in Procs : Tick(p))
-----------------------------------------------------------------------------
\* Every variable keeps its type.
TypeOK ==
    /\ server \in {"down", "unready", "ready"}
    /\ live \in Snapshot
    /\ forgotten \in SUBSET Panes
    /\ machine \in {"running", "stopping"}
    /\ saved \in Snapshot
    /\ queue \in Procs \cup {Nobody}
    /\ save \in Procs \cup {Nobody}
    /\ pc \in [Procs -> Location]
    /\ arg \in [Procs -> Panes \cup {Nobody}]
    /\ snap \in [Procs -> Snapshot]
    /\ changes \in {"covered", "missed"}
    /\ dropped \in SUBSET Panes
    /\ guarded \in Snapshot

\* The locks are held by exactly the processes whose code is between taking
\* and releasing them: one process reads tmux and writes the snapshot, one
\* waits for it, and none goes on without its lock.
LocksHeld ==
    \A p \in Procs :
        /\ queue = p <=> pc[p] \in InQueue
        /\ save = p <=> pc[p] \in InSave

\* A save that has still to read tmux, or has read what tmux holds now.
Pending ==
    \E p \in Procs :
        \/ pc[p] \in BeforeRead
        \/ pc[p] \in Reading /\ snap[p] = Kept

\* Coalescing loses no change: when the newest snapshot differs from the
\* server, some save is still to see it, unless one failed on the way or met
\* a WaitIdle, or the change was announced to none.
NoLostChange == server = "ready" /\ changes = "covered" /\ saved # Kept => Pending

\* After `forget' has returned without an error no save in flight, queued or
\* later writes the session again, so that killing it, and the server with
\* it, leaves it out of the snapshot.  That goes for a session that is still
\* there and marked when the forget returns, on a machine that keeps running.
\* The code returns no error either when the server has gone meanwhile or the
\* machine is stopping, and has then taken nothing out.
ForgottenStaysOut == \A x \in dropped : saved[x] = Absent

\* From the moment systemd is stopping the machine the snapshot keeps every
\* pane and every command it held, in whatever order panes, programs, tmux
\* and the saves they start go: one is lost only to a forget, or to a save
\* that systemd did not answer and that found it gone.
ShutdownKeeps == machine = "stopping" => ~Loses(guarded, saved)

\* Once nothing disturbs the server or the saves, the snapshot comes to hold
\* what the server holds and stays so: the timer makes up for a save that
\* failed, timed out or came too early.
CatchesUp ==
    /\ <>[][\E p \in Procs : Tick(p) \/ Working(p)]_vars
    /\ <>[](server = "ready" /\ live # Empty /\ machine = "running")
    => <>[](saved = Kept)
=============================================================================
