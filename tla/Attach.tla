------------------------------- MODULE Attach -------------------------------
(***************************************************************************)
(* How a tmux server gets its sessions back: terminals run `tmux-revive    *)
(* attach' under the attach lock, a key runs `restore' without it, and     *)
(* tmux.conf runs `tmux-init', one tmux call at a time, next to users who  *)
(* open and close sessions and a server that may exit.  Saves are single   *)
(* steps here; SaveProtocol takes them apart.                              *)
(***************************************************************************)
EXTENDS Naturals, FiniteSets

CONSTANTS
    Procs,     \* terminals, and runs of `restore'
    Work,      \* session names other than Main
    Main,      \* fallbackSession
    Skipped,   \* names that match @skip_sessions
    Nobody,
    Modes      \* what may happen to an attach or a restore under way:
               \* "users" act, it "fails" or times out, it is "killed"

ASSUME AttachAssumption ==
    /\ Nobody \notin Procs \cup Work \cup {Main} /\ Main \notin Work /\ Skipped \subseteq Work
    /\ Modes \subseteq SUBSET {"users", "fails", "killed"}

Names == Work \cup {Main}

VARIABLES
    mode,     \* the one of Modes this behaviour is in
    windows,  \* windows of each session, 0 for none and 2 for several
    ready,    \* @revive_ready of the server
    saved,    \* sessions of the newest snapshot
    lock,     \* holder of attach.lock
    save,     \* holder of save.lock, for longer than a save
    pc,
    seen,     \* what a process read of windows
    snap,     \* the snapshot it restores
    target,   \* where a terminal is to land
    attaching, \* processes that run attach; the others run restore
    owed,     \* history: what a restore still has to put back on this server
    made,     \* history: the sessions restores made on it
    restored, \* history: how many attaches restored onto it (up to 2)
    lapsed,   \* history: attach failed to read or set the ready mark of a
              \* server restored onto
    gaveUp    \* history: terminals whose lock, list of sessions or new main
              \* failed

tmux == <<windows, ready>>
local == <<pc, seen, snap, target, attaching>>
onServer == <<owed, made, restored>>
history == <<onServer, lapsed, gaveUp>>
vars == <<mode, windows, ready, saved, lock, save, local, history>>

NoWindows == [n \in Names |-> 0]
Sessions(w) == {n \in Names : w[n] > 0}
Live == Sessions(windows)
Up == Live # {}

\* bare: no sessions, or only a main with one window.
Bare(w) == Sessions(w) \subseteq {Main} /\ w[Main] <= 1

Init ==
    /\ mode \in Modes
    /\ windows = NoWindows /\ ready = FALSE
    /\ saved \in SUBSET Names
    /\ lock = Nobody /\ save = Nobody
    /\ pc = [p \in Procs |-> "closed"]
    /\ seen = [p \in Procs |-> NoWindows]
    /\ snap = [p \in Procs |-> {}]
    /\ target = [p \in Procs |-> Nobody]
    /\ attaching = {}
    /\ owed = saved /\ made = {} /\ restored = 0
    /\ lapsed = FALSE /\ gaveUp = {}
-----------------------------------------------------------------------------
Busy == \E p \in Procs : pc[p] \notin {"closed", "attached"}
UserActs == "users" \in mode \/ ~Busy

\* A server without sessions exits; its clients end with it, and a call in
\* progress fails.  The next server owes what the snapshot holds.
Gone ==
    /\ windows' = NoWindows /\ ready' = FALSE
    /\ pc' = [p \in Procs |->
           CASE pc[p] = "attached" -> "closed" [] pc[p] = "creating" -> "lost" [] OTHER -> pc[p]]
    /\ made' = {} /\ restored' = 0 /\ lapsed' = FALSE

\* A user opens a session from outside, or one more window in it.
UserOpens(n) ==
    /\ UserActs
    /\ windows[n] < (IF n = Main THEN 2 ELSE 1)
    /\ windows' = [windows EXCEPT ![n] = @ + 1]
    /\ made' = made \ {n}
    /\ UNCHANGED <<mode, ready, saved, lock, save, local, owed, restored, lapsed, gaveUp>>

\* The session's last shell exits; or forget-session, then kill-session: on a
\* server that is not ready only the session itself leaves the snapshot.
UserCloses(n) ==
    /\ UserActs /\ n \in Live
    /\ \/ UNCHANGED saved
       \/ save = Nobody /\ saved' = IF ready THEN Live \ {n} ELSE saved \ {n}
    /\ IF Live = {n}
       THEN Gone /\ owed' = saved'
       ELSE /\ windows' = [windows EXCEPT ![n] = 0]
            /\ owed' = owed \ {n} /\ made' = made \ {n}
            /\ UNCHANGED <<ready, pc, restored, lapsed>>
    /\ UNCHANGED <<mode, lock, save, seen, snap, target, attaching, gaveUp>>

\* kill-server, a crash, a logout.
ServerExit ==
    /\ UserActs /\ Up
    /\ Gone /\ owed' = saved
    /\ UNCHANGED <<mode, saved, lock, save, seen, snap, target, attaching, gaveUp>>

\* Mutant of Save: a server that is not ready is saved too.
SaveUnready ==
    /\ Up /\ save = Nobody
    /\ saved' = Live
    /\ UNCHANGED <<mode, tmux, lock, save, local, history>>

\* A hook saves: only a ready server.
Save ==
    /\ ready /\ Up /\ save = Nobody
    /\ saved' = Live
    /\ UNCHANGED <<mode, tmux, lock, save, local, history>>

\* tmux-init on a server with sessions (prefix r): this is its state now.
TmuxInit ==
    /\ UserActs /\ Up /\ ~ready
    /\ ready' = TRUE /\ owed' = {}
    /\ UNCHANGED <<mode, windows, saved, lock, save, local, made, restored, lapsed, gaveUp>>
-----------------------------------------------------------------------------
Goto(p, from, to) == pc[p] = from /\ pc' = [pc EXCEPT ![p] = to]

Open(p) ==
    /\ Goto(p, "closed", "wait")
    /\ attaching' = attaching \cup {p}
    /\ UNCHANGED <<mode, tmux, saved, lock, save, seen, snap, target, history>>

StartRestore(p) ==
    /\ "users" \in mode /\ Goto(p, "closed", "latest")
    /\ attaching' = attaching \ {p}
    /\ UNCHANGED <<mode, tmux, saved, lock, save, seen, snap, target, history>>

\* Mutant of Lock: terminals do not wait for one another.
LockAnyway(p) ==
    /\ Goto(p, "wait", "look")
    /\ lock' = p
    /\ UNCHANGED <<mode, tmux, saved, save, seen, snap, target, attaching, history>>

Lock(p) ==
    /\ Goto(p, "wait", "look")
    /\ lock = Nobody /\ lock' = p
    /\ UNCHANGED <<mode, tmux, saved, save, seen, snap, target, attaching, history>>

\* Mutant of Look: the sessions are not read again after a restore.
LookOnce(p) ==
    /\ \/ Goto(p, "look", "ready") /\ seen' = [seen EXCEPT ![p] = windows]
       \/ Goto(p, "relook", "land") /\ UNCHANGED seen
    /\ UNCHANGED <<mode, tmux, saved, lock, save, snap, target, attaching, history>>

\* sessions
Look(p) ==
    /\ \/ Goto(p, "look", "ready")
       \/ Goto(p, "relook", "land")
    /\ seen' = [seen EXCEPT ![p] = windows]
    /\ UNCHANGED <<mode, tmux, saved, lock, save, snap, target, attaching, history>>

IsReady(p) == Sessions(seen[p]) # {} /\ ready

\* Mutant of Judge: any server that is not ready is restored onto.
JudgeAll(p) ==
    /\ Goto(p, "ready", IF IsReady(p) THEN "land" ELSE "latest")
    /\ UNCHANGED <<mode, tmux, saved, lock, save, seen, snap, target, attaching, history>>

\* isReady, then bare: what to do with the server.  A mark that cannot be
\* read is none.  Live work that no restore made is the server's state.
Judge(p) ==
    /\ \E answer \in {IsReady(p)} \cup (IF "fails" \in mode THEN {FALSE} ELSE {}) :
           /\ Goto(p, "ready", CASE answer -> "land"
                                 [] ~answer /\ Bare(seen[p]) -> "latest"
                                 [] OTHER -> "mark")
           /\ lapsed' = (lapsed \/ (restored > 0 /\ answer # IsReady(p)))
    /\ owed' = IF pc'[p] = "mark" /\ ~(Sessions(seen[p]) \subseteq made) THEN {} ELSE owed
    /\ UNCHANGED <<mode, tmux, saved, lock, save, seen, snap, target, attaching, made, restored, gaveUp>>

\* markReady leaves the mark of a server that has sessions, or fails.
Marked(up) == {up} \cup (IF "fails" \in mode THEN {ready} ELSE {})

\* Where a process goes on once Restore has returned.
Returned(p) == IF p \in attaching THEN "mark" ELSE "closed"

\* restoreLatest: Store.Latest.
Latest(p) ==
    /\ pc[p] = "latest"
    /\ snap' = [snap EXCEPT ![p] = saved]
    /\ pc' = [pc EXCEPT ![p] =
           IF saved # {} THEN "restore" ELSE Returned(p)]
    /\ UNCHANGED <<mode, tmux, saved, lock, save, seen, target, attaching, history>>

\* Restore: the save lock, then readLive.
LockSave(p) ==
    /\ Goto(p, "restore", "create")
    /\ save = Nobody /\ save' = p
    /\ snap' = [snap EXCEPT ![p] = @ \ Live]
    /\ UNCHANGED <<mode, tmux, saved, lock, seen, target, attaching, history>>

\* Mutant of MakeSession: a name that is taken gets one more window.
MakeAgain(p, n) ==
    /\ pc[p] \in {"create", "creating"} /\ n \in snap[p]
    /\ pc' = [pc EXCEPT ![p] = "creating"]
    /\ snap' = [snap EXCEPT ![p] = @ \ {n}]
    /\ windows' = [windows EXCEPT ![n] = @ + 1] /\ made' = made \cup {n}
    /\ UNCHANGED <<mode, ready, saved, lock, save, seen, target, attaching, owed, restored, lapsed, gaveUp>>

\* create: one new-session after another; the first starts the server.  A
\* name taken meanwhile is refused, and the rest go on.
MakeSession(p, n) ==
    /\ pc[p] \in {"create", "creating"} /\ n \in snap[p]
    /\ pc' = [pc EXCEPT ![p] = "creating"]
    /\ snap' = [snap EXCEPT ![p] = @ \ {n}]
    /\ IF n \in Live THEN UNCHANGED <<windows, made>>
       ELSE windows' = [windows EXCEPT ![n] = 1] /\ made' = made \cup {n}
    /\ restored' = IF pc[p] = "create" /\ p \in attaching /\ restored < 2 THEN restored + 1 ELSE restored
    /\ UNCHANGED <<mode, ready, saved, lock, save, seen, target, attaching, owed, lapsed, gaveUp>>

\* Restore ends: the panes are typed into, the target is looked up, the
\* server is marked ready and the lock released.  A failed create costs the
\* sessions that are left.  A restore with something to make then saves.
EndRestore(p) ==
    /\ pc[p] \in {"create", "creating"}
    /\ snap[p] = {} \/ "fails" \in mode
    /\ pc' = [pc EXCEPT ![p] = IF pc[p] = "creating" \/ snap[p] # {} THEN "saving" ELSE Returned(p)]
    /\ snap' = [snap EXCEPT ![p] = {}]
    /\ save' = Nobody
    /\ ready' \in Marked(Up)
    /\ owed' = IF Up /\ snap[p] = {} THEN {} ELSE owed
    /\ \E n \in {Nobody} \cup (Live \ Skipped) : target' = [target EXCEPT ![p] = n]
    /\ UNCHANGED <<mode, windows, saved, lock, seen, attaching, made, restored, lapsed, gaveUp>>

\* The time runs out, the store cannot be read, or the server went.  markReady
\* runs all the same, and fails with the time.
FailRestore(p) ==
    /\ \/ pc[p] = "lost"
       \/ "fails" \in mode /\ pc[p] \in {"latest", "restore", "create", "creating"}
    /\ pc' = [pc EXCEPT ![p] = IF @ \in {"creating", "lost"} THEN "saving" ELSE Returned(p)]
    /\ snap' = [snap EXCEPT ![p] = {}]
    /\ save' = IF save = p THEN Nobody ELSE save
    /\ ready' \in IF save = p THEN {ready, Up} ELSE {ready}
    /\ UNCHANGED <<mode, windows, saved, lock, seen, target, attaching, history>>

\* The save after a restore has time of its own; it may be coalesced.
SaveRestored(p) ==
    /\ Goto(p, "saving", Returned(p))
    /\ \/ UNCHANGED saved
       \/ save = Nobody /\ ready /\ Up /\ saved' = Live
    /\ UNCHANGED <<mode, tmux, lock, save, seen, snap, target, attaching, history>>

\* markReady, after a restore with time of its own.
MarkReady(p) ==
    /\ Goto(p, "mark", "relook")
    /\ ready' \in Marked(Up)
    /\ lapsed' = (lapsed \/ (restored > 0 /\ ready' # Up))
    /\ UNCHANGED <<mode, windows, saved, lock, save, seen, snap, target, attaching, onServer, gaveUp>>

\* The target, or else lastUsed of the sessions that were read.
Land(p) ==
    /\ Goto(p, "land", "exec")
    /\ IF target[p] # Nobody THEN UNCHANGED target
       ELSE \E n \in Sessions(seen[p]) \ Skipped : target' = [target EXCEPT ![p] = n]
    /\ UNCHANGED <<mode, tmux, saved, lock, save, seen, snap, attaching, history>>

\* Nowhere to land: a new main, and its server is ready.  One that is there
\* by now is refused, and Attach returns no target.
NewMain(p) ==
    /\ Goto(p, "land", "exec")
    /\ target[p] = Nobody /\ Sessions(seen[p]) \subseteq Skipped
    /\ IF Main \in Live THEN UNCHANGED <<tmux, target, lapsed>>
       ELSE /\ windows' = [windows EXCEPT ![Main] = 1]
            /\ ready' \in Marked(TRUE)
            /\ lapsed' = (lapsed \/ (restored > 0 /\ ~ready'))
            /\ target' = [target EXCEPT ![p] = Main]
    /\ UNCHANGED <<mode, saved, lock, save, seen, snap, attaching, onServer, gaveUp>>

\* The wait for the attach lock, a list of the sessions or the new main
\* fails: Attach returns no target, whatever the restore had.
GiveUp(p) ==
    /\ "fails" \in mode
    /\ \/ Goto(p, "wait", "become")
       \/ Goto(p, "look", "exec")
       \/ Goto(p, "relook", "exec")
       \/ Goto(p, "land", "exec") /\ target[p] = Nobody /\ Sessions(seen[p]) \subseteq Skipped
    /\ target' = [target EXCEPT ![p] = Nobody]
    /\ gaveUp' = gaveUp \cup {p}
    /\ UNCHANGED <<mode, tmux, saved, lock, save, seen, snap, attaching, onServer, lapsed>>

\* Mutant of Release: the client that attach becomes keeps the lock.
ReleaseNever(p) ==
    /\ Goto(p, "exec", "become")
    /\ UNCHANGED <<mode, tmux, saved, lock, save, seen, snap, target, attaching, history>>

\* The lock goes with Attach.
Release(p) ==
    /\ Goto(p, "exec", "become")
    /\ lock' = Nobody
    /\ UNCHANGED <<mode, tmux, saved, save, seen, snap, target, attaching, history>>

\* Mutant of Become: without a target there is no client.
BecomeTarget(p) ==
    /\ Goto(p, "become", IF target[p] \in Live THEN "attached" ELSE "closed")
    /\ target' = [target EXCEPT ![p] = Nobody]
    /\ seen' = [seen EXCEPT ![p] = NoWindows]
    /\ UNCHANGED <<mode, tmux, saved, lock, save, snap, attaching, history>>

\* The process becomes the tmux client: of the target, or of a main that is
\* made if need be.
Become(p) ==
    /\ Goto(p, "become", IF target[p] \in {Nobody} \cup Live THEN "attached" ELSE "closed")
    /\ windows' = IF target[p] = Nobody /\ Main \notin Live THEN [windows EXCEPT ![Main] = 1] ELSE windows
    /\ target' = [target EXCEPT ![p] = Nobody]
    /\ seen' = [seen EXCEPT ![p] = NoWindows]
    /\ gaveUp' = gaveUp \ {p}
    /\ UNCHANGED <<mode, ready, saved, lock, save, snap, attaching, onServer, lapsed>>

\* The terminal is closed, or its process killed: its locks go with it.
Kill(p) ==
    /\ "killed" \in mode /\ pc[p] # "closed"
    /\ pc' = [pc EXCEPT ![p] = "closed"]
    /\ seen' = [seen EXCEPT ![p] = NoWindows]
    /\ snap' = [snap EXCEPT ![p] = {}]
    /\ target' = [target EXCEPT ![p] = Nobody]
    /\ lock' = IF lock = p THEN Nobody ELSE lock
    /\ save' = IF save = p THEN Nobody ELSE save
    /\ gaveUp' = gaveUp \ {p}
    /\ UNCHANGED <<mode, tmux, saved, attaching, onServer, lapsed>>
-----------------------------------------------------------------------------
Users ==
    \/ \E n \in Names : UserOpens(n) \/ UserCloses(n)
    \/ ServerExit \/ Save \/ TmuxInit

Terminal(p) ==
    \/ Lock(p) \/ Look(p) \/ Judge(p) \/ Latest(p) \/ LockSave(p)
    \/ \E n \in Names : MakeSession(p, n)
    \/ EndRestore(p) \/ FailRestore(p) \/ SaveRestored(p) \/ MarkReady(p)
    \/ Land(p) \/ NewMain(p) \/ GiveUp(p) \/ Release(p) \/ Become(p)

Next == Users \/ \E p \in Procs : Open(p) \/ StartRestore(p) \/ Terminal(p) \/ Kill(p)

Spec == Init /\ [][Next]_vars

\* A process goes on when it can.
FairSpec == Spec /\ \A p \in Procs : WF_vars(Terminal(p))
-----------------------------------------------------------------------------
Location == {"closed", "wait", "look", "ready", "latest", "restore", "create", "creating",
             "lost", "saving", "mark", "relook", "land", "exec", "become", "attached"}

\* Every variable keeps its type.
TypeOK ==
    /\ mode \in Modes
    /\ windows \in [Names -> 0..2] /\ ready \in BOOLEAN
    /\ saved \subseteq Names
    /\ lock \in Procs \cup {Nobody} /\ save \in Procs \cup {Nobody}
    /\ pc \in [Procs -> Location]
    /\ seen \in [Procs -> [Names -> 0..2]]
    /\ snap \in [Procs -> SUBSET Names]
    /\ target \in [Procs -> Names \cup {Nobody}]
    /\ attaching \subseteq Procs
    /\ owed \subseteq Names /\ made \subseteq Names /\ restored \in 0..2
    /\ lapsed \in BOOLEAN /\ gaveUp \subseteq Procs

\* "Terminals that open together restore once": whatever users, `restore',
\* failures and timeouts do meanwhile.  A restore is done again only when one
\* was killed, or when attach could not set the server's mark or read it.
RestoredOnce == "killed" \notin mode /\ ~lapsed => restored <= 1

\* What no restore has put back, and no user has closed, stays in the newest
\* snapshot until live work or a tmux-init counts as the server's state:
\* "Saves wait for it, so that a server started some other way cannot replace
\* the snapshot a restore still needs".
OwedStays == owed \subseteq saved

\* It does as long as restores run to their end undisturbed, however many
\* terminals open and whatever hooks save meanwhile.
OwedStaysCalm == mode = {} => OwedStays

\* "A server holding live work is never restored onto": unless users meddle,
\* an attach makes sessions beside restored ones and a one-window main only,
\* also when a restore before it failed or was killed.
LiveWorkAlone ==
    [][\A p \in attaching, n \in Names : MakeSession(p, n) /\ "users" \notin mode
          => \A m \in Live : m \in made \/ (m = Main /\ windows[m] = 1)]_vars

\* Unless users meddle, a terminal gets a new main only when there is no
\* session it may land on: never "a new main beside the restored sessions",
\* whatever part of a restore failed, whether Attach makes it or the client
\* it becomes.  Only a terminal that gave up gets one blindly.
NoStrayMain ==
    [][\A p \in Procs :
           /\ "users" \notin mode
           /\ NewMain(p) \/ (Become(p) /\ p \notin gaveUp /\ windows' # windows)
           => Live \subseteq Skipped \cup {Main}]_vars

\* "Whatever fails, the terminal still gets a tmux session", unless a user
\* closes the one it was to get.
GetsSession ==
    [][\A p \in Procs : Become(p) /\ "users" \notin mode => pc'[p] = "attached"]_vars

\* Once no more terminals open or are killed, every one that waits gets to
\* its session: none is blocked by a lock that stays behind.
Opens ==
    <>[][\E p \in Procs : Terminal(p)]_vars
    => \A p \in Procs : pc[p] = "wait" ~> pc[p] \in {"attached", "closed"}
=============================================================================
