---------------------------- MODULE SnapshotStore ----------------------------
(***************************************************************************)
(* The folder of snapshot and scrollback files, file operation by file     *)
(* operation: one process at a time saves (it holds the save lock) and may *)
(* crash between any two of them; the scrollback timer captures and prunes *)
(* beside it without that lock; the clock that names the snapshots may     *)
(* step back.                                                              *)
(***************************************************************************)
EXTENDS Naturals, FiniteSets, FiniteSetsExt

CONSTANTS
    Panes,      \* pane ids
    Keep,       \* @revive_snapshots
    MaxTime,    \* bound: the last moment of the clock, so the number of snapshots
    StepsBack   \* whether the clock may step back between two saves

ASSUME StoreAssumption ==
    /\ Keep \in Nat \ {0} /\ MaxTime \in Nat
    /\ StepsBack \in BOOLEAN

\* The panes of a snapshot, and a detail (a folder, a layout) beside them.
Content == [panes : SUBSET Panes, detail : {0, 1}]
NoFile == 0
Nothing == [panes |-> {}, detail |-> 0]

VARIABLES
    live,    \* what the server holds, as a Content
    clock,
    files,   \* snapshot files: their Content by the time that names them
    scroll,  \* panes with a scrollback file
    saver,   \* the process with the save lock
    capture, \* the scrollback timer's capture
    last,    \* history: the snapshot written last, and its file
    crossed  \* history: whether a save has made a file since the capture listed them

vars == <<live, clock, files, scroll, saver, capture, last, crossed>>

Entries == DOMAIN files
Newest == Max(Entries)

IdleSaver == [pc |-> "idle", snap |-> Nothing, replace |-> NoFile, path |-> NoFile, todo |-> {}]
IdleCapture == [pc |-> "idle", live |-> {}, todo |-> {}, keep |-> {}]
Without(f, t) == [u \in DOMAIN f \ {t} |-> f[u]]

Init ==
    /\ live = Nothing
    /\ clock = 0
    /\ files = <<>>
    /\ scroll = {}
    /\ saver = IdleSaver
    /\ capture = IdleCapture
    /\ last = [path |-> NoFile, snap |-> Nothing]
    /\ crossed = FALSE
-----------------------------------------------------------------------------
\* A pane opens under an id nothing has yet, or closes, or a detail changes.
Unused(x) ==
    /\ x \notin live.panes \cup scroll \cup saver.snap.panes \cup capture.keep \cup capture.todo
    /\ \A t \in Entries : x \notin files[t].panes

Edit ==
    /\ \/ \E x \in Panes : Unused(x) /\ live' = [live EXCEPT !.panes = @ \cup {x}]
       \/ \E x \in live.panes : live' = [live EXCEPT !.panes = @ \ {x}]
       \/ live' = [live EXCEPT !.detail = 1 - @]
    /\ UNCHANGED <<clock, files, scroll, saver, capture, last, crossed>>

\* The panes are read; a server without panes is not saved.
Read ==
    /\ saver.pc = "idle" /\ live.panes # {}
    /\ saver' = [saver EXCEPT !.pc = "commit", !.snap = live]
    /\ UNCHANGED <<live, clock, files, scroll, capture, last, crossed>>

Known == Entries # {} /\ files[Newest] = saver.snap

\* Mutant: a save of details adds a snapshot too.
ReplacedNever == NoFile

Replaced == IF Entries # {} /\ files[Newest].panes = saver.snap.panes THEN Newest ELSE NoFile

\* commit: nothing new; or a snapshot of now, in place of the newest file when
\* only details changed.
Unchanged ==
    /\ saver.pc = "commit" /\ Known
    /\ saver' = IdleSaver
    /\ UNCHANGED <<live, clock, files, scroll, capture, last, crossed>>

\* Mutant: the replaced file is removed before the new one appears.
CommitRemovesFirst ==
    /\ saver.pc = "commit" /\ ~Known
    /\ clock' \in {clock + 1} \cap 1..MaxTime
    /\ saver' = [saver EXCEPT !.pc = "rename", !.replace = Replaced]
    /\ files' = Without(files, Replaced)
    /\ UNCHANGED <<live, scroll, capture, last, crossed>>

Commit ==
    /\ saver.pc = "commit" /\ ~Known
    /\ clock' \in IF StepsBack THEN 1..MaxTime ELSE {clock + 1} \cap 1..MaxTime
    /\ saver' = [saver EXCEPT !.pc = "rename", !.replace = Replaced]
    /\ UNCHANGED <<live, files, scroll, capture, last, crossed>>

\* Store.Write: the file is named by the time, or the next free one, and
\* appears whole.
Rename ==
    /\ saver.pc = "rename"
    /\ \E t \in clock..MaxTime + Cardinality(Entries) :
        /\ t \notin Entries \/ t = saver.replace
        /\ \A u \in clock..t - 1 : u \in Entries /\ u # saver.replace
        /\ files' = [u \in Entries \cup {t} |-> IF u = t THEN saver.snap ELSE files[u]]
        /\ last' = [path |-> t, snap |-> saver.snap]
        /\ saver' = [saver EXCEPT !.pc = "remove", !.path = t]
    /\ crossed' = (crossed \/ capture.pc \in {"load", "remove"})
    /\ UNCHANGED <<live, clock, scroll, capture>>

\* The file it replaces goes; then prune lists the files.
Remove ==
    /\ saver.pc = "remove"
    /\ files' = IF saver.replace # saver.path THEN Without(files, saver.replace) ELSE files
    /\ saver' = [saver EXCEPT !.pc = "prune", !.todo = DOMAIN files']
    /\ UNCHANGED <<live, clock, scroll, capture, last, crossed>>

\* Mutant: prune stops one file early.
PruneLess ==
    /\ saver.pc = "prune"
    /\ IF Cardinality(saver.todo) > Keep + 1
       THEN /\ files' = Without(files, Min(saver.todo))
            /\ saver' = [saver EXCEPT !.todo = @ \ {Min(@)}]
       ELSE saver' = IdleSaver /\ UNCHANGED files
    /\ UNCHANGED <<live, clock, scroll, capture, last, crossed>>

\* prune removes the oldest of the files it listed, one at a time.
Prune ==
    /\ saver.pc = "prune"
    /\ IF Cardinality(saver.todo) > Keep
       THEN /\ files' = Without(files, Min(saver.todo))
            /\ saver' = [saver EXCEPT !.todo = @ \ {Min(@)}]
       ELSE saver' = IdleSaver /\ UNCHANGED files
    /\ UNCHANGED <<live, clock, scroll, capture, last, crossed>>

\* A crash between two file operations, or one that failed.
Crash ==
    /\ saver.pc # "idle"
    /\ saver' = IdleSaver
    /\ UNCHANGED <<live, clock, files, scroll, capture, last, crossed>>
-----------------------------------------------------------------------------
\* Capture: list the live panes, write a file for each, then list the
\* snapshots, load each (one that is gone by now is passed over), and remove
\* the files of panes neither live nor in a snapshot.
List ==
    /\ capture.pc = "idle"
    /\ capture' = [capture EXCEPT !.pc = "write", !.live = live.panes, !.todo = live.panes]
    /\ UNCHANGED <<live, clock, files, scroll, saver, last, crossed>>

WriteScrollback(x) ==
    /\ capture.pc = "write" /\ x \in capture.todo
    /\ capture' = [capture EXCEPT !.todo = @ \ {x}]
    /\ scroll' = IF x \in live.panes THEN scroll \cup {x} ELSE scroll
    /\ UNCHANGED <<live, clock, files, saver, last, crossed>>

ListEntries ==
    /\ capture.pc = "write" /\ capture.todo = {}
    /\ capture' = [capture EXCEPT !.pc = "load", !.todo = Entries]
    /\ UNCHANGED <<live, clock, files, scroll, saver, last, crossed>>

Load(t) ==
    /\ capture.pc = "load" /\ t \in capture.todo
    /\ capture' = [capture EXCEPT !.todo = @ \ {t},
                       !.keep = IF t \in Entries THEN @ \cup files[t].panes ELSE @]
    /\ UNCHANGED <<live, clock, files, scroll, saver, last, crossed>>

\* Mutant: the live panes are not counted among those to keep.
ListScrollForgets ==
    /\ capture.pc = "load" /\ capture.todo = {}
    /\ capture' = [capture EXCEPT !.pc = "remove", !.todo = scroll \ capture.keep]
    /\ UNCHANGED <<live, clock, files, scroll, saver, last, crossed>>

ListScroll ==
    /\ capture.pc = "load" /\ capture.todo = {}
    /\ capture' = [capture EXCEPT !.pc = "remove", !.todo = scroll \ (capture.keep \cup capture.live)]
    /\ UNCHANGED <<live, clock, files, scroll, saver, last, crossed>>

RemoveScrollback ==
    /\ capture.pc = "remove"
    /\ \/ \E x \in capture.todo :
            /\ scroll' = scroll \ {x}
            /\ capture' = [capture EXCEPT !.todo = @ \ {x}]
            /\ UNCHANGED crossed
       \/ capture.todo = {} /\ capture' = IdleCapture /\ crossed' = FALSE /\ UNCHANGED scroll
    /\ UNCHANGED <<live, clock, files, saver, last>>

Saving == Read \/ Unchanged \/ Commit \/ Rename \/ Remove \/ Prune
Capturing ==
    \/ List \/ ListEntries \/ ListScroll \/ RemoveScrollback
    \/ \E x \in Panes : WriteScrollback(x)
    \/ \E t \in Entries \cup capture.todo : Load(t)

Next == Edit \/ Saving \/ Crash \/ Capturing

Spec == Init /\ [][Next]_vars
-----------------------------------------------------------------------------
\* Every variable keeps its type, and no file has a name from before the
\* clock began.
TypeOK ==
    /\ live \in Content
    /\ clock \in 0..MaxTime
    /\ IsFiniteSet(Entries) /\ Entries \subseteq Nat \ {NoFile}
    /\ \A t \in Entries : files[t] \in Content
    /\ scroll \subseteq Panes
    /\ saver \in [pc : {"idle", "commit", "rename", "remove", "prune"}, snap : Content,
                  replace : Nat, path : Nat, todo : SUBSET Nat]
    /\ IsFiniteSet(saver.todo)
    /\ capture \in [pc : {"idle", "write", "load", "remove"}, live : SUBSET Panes, keep : SUBSET Panes,
                    todo : SUBSET (Panes \cup Nat)]
    /\ last \in [path : Nat, snap : Content]
    /\ crossed \in BOOLEAN

\* Whatever crashes between two file operations, the newest snapshot that
\* can be read is the one written last: a save never leaves the folder
\* without it or behind an older one.
NewestIsLast == last.path # NoFile => Entries # {} /\ files[Newest] = last.snap

Finishes == Prune /\ saver'.pc = "idle"

\* A finished save leaves no more files than it should, and those are the
\* newest: a crash's leftovers go with the next save that gets through.
PruneKeepsNewest == [][Finishes => Cardinality(Entries) <= Keep /\ saver.path = Newest]_vars

\* PruneScrollback "removes the scrollback files of panes that are neither
\* live nor in a kept snapshot": no pane a snapshot would restore loses its
\* scrollback, as long as no save made a file since the capture listed them.
ScrollbackKept ==
    [][\A x \in scroll \ scroll' : ~crossed =>
          x \notin live.panes /\ \A t \in Entries : x \notin files[t].panes]_vars

\* Save "writes a snapshot of the server when its state changed": after a
\* save that went through, its snapshot is there.
WrittenStays == [][Finishes => saver.path \in Entries]_vars
=============================================================================
