------------------------------- MODULE Attention -------------------------------
(***************************************************************************)
(* The attention flags of one tmux server.  A command makes its tmux calls *)
(* one at a time, `cmd[r].at' being the next one, beside panes that open,  *)
(* close, move and change their foreground command.  Reasons, times,       *)
(* marks and colours are left out.                                         *)
(***************************************************************************)
EXTENDS Naturals, FiniteSets

CONSTANTS
    Panes, Windows, Programs,
    Shell,     \* the foreground command of a pane without a program
    Nobody,
    Modes      \* see mode

States == {"idle", "needs-you", "done", "working"}
Flags == [state : States, failed : BOOLEAN, owner : Programs \cup {Nobody}]

ASSUME AttentionAssumption ==
    /\ Shell \notin Programs /\ Nobody \notin Panes \cup Windows \cup Programs
    /\ \A m \in Modes :
           /\ m.moving \in BOOLEAN /\ m.redrawing \in BOOLEAN /\ m.windows \subseteq Windows
           /\ m.wanted \subseteq [state : States \ {"idle"}, failed : BOOLEAN, owned : BOOLEAN]
           /\ \A f \in m.wanted : f.failed => f.state = "done"

Runners == UNION {m.runners : m \in Modes}

VARIABLES
    mode,     \* fixed: how many commands run at once (runners), the flags
              \* programs set (wanted: [state, failed, owned]), the windows
              \* there are, whether panes close and move (moving), and
              \* whether tmux-init runs (redrawing)
    win,      \* the window of each pane, Nobody once it is closed
    command,  \* pane_current_command
    flag,     \* @attention, @attention_failed, @attention_owner
    rolled,   \* @attention_win, @attention_win_failed
    status,   \* the counts @attention_status shows
    due,      \* hooks of closed panes tmux has yet to run
    cmd,      \* each runner's command: its next call (at), the pane and the
              \* flag it is about (pane, want); in a sweep (sweeping), the
              \* stale flags left to drop and whether one was dropped; whether
              \* the counts follow (counts), and the pane Seen then looks at
    got,      \* the panes its last list-panes returned
    stale,    \* history: the panes it found stale when it started
    named     \* history: the owner the last Set of a pane named

server == <<mode, win, command, flag, rolled, status, due>>
local == <<cmd, got>>
history == <<stale, named>>
vars == <<server, local, history>>

NoFlag == [state |-> "idle", failed |-> FALSE, owner |-> Nobody]
Nothing == [state |-> "idle", failed |-> FALSE]
Alive(p) == win[p] # Nobody
Open == {p \in Panes : Alive(p)}
In(w) == {p \in Panes : win[p] = w}

Rank(s) == CASE s = "needs-you" -> 0 [] s = "done" -> 1 [] s = "working" -> 2 [] OTHER -> 9

\* What a list-panes shows of some panes.
Listed(ps) == [p \in ps |-> [state |-> flag[p].state, failed |-> flag[p].failed, win |-> win[p]]]

\* rollUpArgs: the highest-ranked state, failed when a done pane is.
RollUp(list) ==
    LET states == {list[p].state : p \in DOMAIN list}
        best == IF states = {} THEN "idle" ELSE CHOOSE s \in states : \A t \in states : Rank(s) <= Rank(t)
    IN  [state |-> best,
         failed |-> best = "done" /\ \E p \in DOMAIN list : list[p].state = "done" /\ list[p].failed]

Counts(list) ==
    LET Of(s, f) == Cardinality({p \in DOMAIN list :
                        list[p].state = s /\ (s = "done" => list[p].failed = f)})
    IN  [needs |-> Of("needs-you", FALSE), working |-> Of("working", FALSE),
         failed |-> Of("done", TRUE), done |-> Of("done", FALSE)]

Stale(p) ==
    Alive(p) /\ flag[p].state # "idle" /\ flag[p].owner \notin {Nobody, command[p]}

Idle == [at |-> "none", pane |-> Nobody, want |-> NoFlag, sweeping |-> FALSE,
         left |-> {}, dropped |-> FALSE, counts |-> FALSE, look |-> Nobody]

Init ==
    /\ mode \in Modes
    /\ win \in [Panes -> mode.windows]
    /\ command \in [Panes -> Programs \cup {Shell}]
    /\ flag = [p \in Panes |-> NoFlag]
    /\ rolled = [w \in Windows |-> Nothing]
    /\ status = Counts(<<>>) /\ due = 0
    /\ cmd = [r \in Runners |-> Idle]
    /\ got = [r \in Runners |-> <<>>]
    /\ stale = [r \in Runners |-> {}]
    /\ named = [p \in Panes |-> Nobody]
-----------------------------------------------------------------------------
(* Panes and programs. *)

Forget(p) == stale' = [r \in Runners |-> stale[r] \ {p}]

\* A window without panes goes, and its options with it.
Leave(p) ==
    IF In(win[p]) = {p} THEN [rolled EXCEPT ![win[p]] = Nothing] ELSE rolled

\* The after-kill-pane and pane-exited hooks run sweep --window.
Close(p) ==
    /\ mode.moving /\ Alive(p) /\ Cardinality(Open) > 1
    /\ win' = [win EXCEPT ![p] = Nobody]
    /\ flag' = [flag EXCEPT ![p] = NoFlag]
    /\ named' = [named EXCEPT ![p] = Nobody]
    /\ rolled' = Leave(p) /\ Forget(p)
    /\ due' = due + 1
    /\ UNCHANGED <<mode, command, status, local>>

\* join-pane and break-pane: no hook.
Move(p, w) ==
    /\ mode.moving /\ Alive(p) /\ win[p] # w
    /\ win' = [win EXCEPT ![p] = w]
    /\ rolled' = Leave(p)
    /\ UNCHANGED <<mode, command, flag, status, due, local, history>>

\* A program starts, or gives the pane back to the shell.
Switch(p, c) ==
    /\ Alive(p) /\ command[p] # c /\ Shell \in {c, command[p]}
    /\ command' = [command EXCEPT ![p] = c]
    /\ stale' = [r \in Runners |-> IF flag[p].owner = c THEN stale[r] \ {p} ELSE stale[r]]
    /\ UNCHANGED <<mode, win, flag, rolled, status, due, local, named>>
-----------------------------------------------------------------------------
(* Commands.                                                               *)

Run(r, c) ==
    /\ r \in mode.runners /\ cmd[r].at = "none"
    /\ cmd' = [cmd EXCEPT ![r] = c]
    /\ stale' = [stale EXCEPT ![r] = {p \in Panes : Stale(p)}]
    /\ UNCHANGED <<mode, win, command, flag, rolled, status, got, named>>

\* What a change of the pane's flag begins with; the counts follow it.
On(at, p) == [Idle EXCEPT !.at = at, !.pane = p, !.counts = TRUE]
StatusCalls == [Idle EXCEPT !.at = "sweep", !.counts = TRUE]
ListCalls == [Idle EXCEPT !.at = "sweep"]

\* A program flags the pane it runs in, in its own name or in none.
Set(r, p, f) ==
    /\ Alive(p) /\ command[p] # Shell
    /\ LET owner == IF f.owned THEN command[p] ELSE Nobody
       IN  Run(r, [On("read", p) EXCEPT
                      !.want = [state |-> f.state, failed |-> f.failed, owner |-> owner]])
    /\ UNCHANGED due

Clear(r, p) == Alive(p) /\ Run(r, On("again", p)) /\ UNCHANGED due

\* pane-focus-in and the other hooks that run seen; GoTo.
Seen(r, p) == Alive(p) /\ Run(r, [ListCalls EXCEPT !.look = p]) /\ UNCHANGED due

\* Mutant of Hook: sweep --window leaves the counts alone.
HookSweeps(r) == due > 0 /\ Run(r, ListCalls) /\ due' = due - 1

\* sweep --window.
Hook(r) == due > 0 /\ Run(r, StatusCalls) /\ due' = due - 1

\* client-focus-in and session-closed run status.
Status(r) == Run(r, StatusCalls) /\ UNCHANGED due

\* List, and with it Jump and the picker.
List(r) == Run(r, ListCalls) /\ UNCHANGED due

Redraw(r) == mode.redrawing /\ Run(r, [StatusCalls EXCEPT !.at = "relist"]) /\ UNCHANGED due
-----------------------------------------------------------------------------
(* The tmux calls.                                                         *)

Doing(r, at) == cmd[r].at = at
Pane(r) == cmd[r].pane
At(r, at) == Doing(r, at) /\ Alive(Pane(r))
Becomes(r, c) == cmd' = [cmd EXCEPT ![r] = c]
Go(r, at) == Becomes(r, [cmd[r] EXCEPT !.at = at])
Stop(r) == Becomes(r, Idle)

\* A sweep goes on to its next flag, or is over.
Swept(c) ==
    [c EXCEPT !.sweeping = c.left # {},
              !.at = IF c.left # {} THEN "drop" ELSE IF c.counts THEN "count" ELSE "settle"]

\* After its sweep and the counts Seen looks at its pane.
Rest(c) == IF c.look = Nobody THEN Idle ELSE On("look", c.look)

\* tmux says the target is gone: a sweep goes on to its next flag.
Missing(r) ==
    /\ cmd[r].at \in {"read", "write", "mark", "again", "unflag", "look", "list", "roll"}
    /\ ~Alive(Pane(r))
    /\ Becomes(r, IF cmd[r].sweeping THEN Swept(cmd[r]) ELSE Idle)
    /\ UNCHANGED <<server, got, history>>

\* Set reads the flag before it writes it.
Read(r) ==
    LET want == cmd[r].want
        same == flag[Pane(r)].state = want.state
    IN
    /\ At(r, "read")
    /\ IF same /\ flag[Pane(r)].failed = want.failed
       THEN Stop(r)
       ELSE Go(r, IF same THEN "mark" ELSE "write")
    /\ named' = [named EXCEPT ![Pane(r)] = want.owner]
    /\ UNCHANGED <<server, got, stale>>

Write(r) ==
    /\ At(r, "write")
    /\ flag' = [flag EXCEPT ![Pane(r)] = cmd[r].want]
    /\ Forget(Pane(r)) /\ Go(r, "list")
    /\ UNCHANGED <<mode, win, command, rolled, status, due, got, named>>

\* The same state again: its failed mark changes, its owner does not.
Mark(r) ==
    /\ At(r, "mark")
    /\ flag' = [flag EXCEPT ![Pane(r)].failed = cmd[r].want.failed]
    /\ Go(r, "list")
    /\ UNCHANGED <<mode, win, command, rolled, status, due, got, history>>

\* Clear leaves a pane without a flag alone.
Again(r) ==
    /\ At(r, "again")
    /\ IF flag[Pane(r)].state = "idle" THEN Stop(r) ELSE Go(r, "unflag")
    /\ UNCHANGED <<server, got, history>>

\* Mutant of Unset: the failed mark stays.
UnsetState(p) ==
    /\ flag' = [flag EXCEPT ![p] = [NoFlag EXCEPT !.failed = flag[p].failed]]
    /\ Forget(p)
    /\ UNCHANGED <<mode, win, command, rolled, status, due, got, named>>

\* unflagArgs.
Unset(p) ==
    /\ flag' = [flag EXCEPT ![p] = NoFlag]
    /\ Forget(p)
    /\ UNCHANGED <<mode, win, command, rolled, status, due, got, named>>

\* Mutant of Unflag: a cleared flag stays on its window.
UnflagUnrolled(r) == At(r, "unflag") /\ Unset(Pane(r)) /\ Becomes(r, StatusCalls)

Unflag(r) == At(r, "unflag") /\ Unset(Pane(r)) /\ Go(r, "list")

\* Seen goes on to Clear only for a done pane.
Look(r) ==
    /\ At(r, "look")
    /\ IF flag[Pane(r)].state = "done" THEN Go(r, "again") ELSE Stop(r)
    /\ UNCHANGED <<server, got, history>>

\* Mutant of Sweep: it drops one flag only.
SweepOne(r) ==
    LET found == {p \in Panes : Stale(p)}
        first == IF found = {} THEN {} ELSE {CHOOSE p \in found : TRUE}
    IN
    /\ Doing(r, "sweep")
    /\ Becomes(r, Swept([cmd[r] EXCEPT !.left = first, !.dropped = FALSE]))
    /\ UNCHANGED <<server, got, history>>

\* Sweep lists the panes.
Sweep(r) ==
    /\ Doing(r, "sweep")
    /\ Becomes(r, Swept([cmd[r] EXCEPT !.left = {p \in Panes : Stale(p)}, !.dropped = FALSE]))
    /\ UNCHANGED <<server, got, history>>

\* It drops the stale flags one by one, in the order of the list.
Drop(r) ==
    /\ Doing(r, "drop")
    /\ \E p \in cmd[r].left :
           LET others == cmd[r].left \ {p} IN
           \/ /\ Alive(p) /\ Unset(p)
              /\ Becomes(r, [cmd[r] EXCEPT !.at = "list", !.pane = p, !.left = others,
                                           !.dropped = TRUE])
           \/ /\ ~Alive(p) /\ Becomes(r, Swept([cmd[r] EXCEPT !.left = others]))
              /\ UNCHANGED <<server, got, history>>

\* Status follows a sweep that dropped something.
Settle(r) ==
    /\ Doing(r, "settle")
    /\ Becomes(r, IF cmd[r].dropped
                  THEN [StatusCalls EXCEPT !.look = cmd[r].look]
                  ELSE Rest(cmd[r]))
    /\ UNCHANGED <<server, got, history>>

ListAs(r, ps, next) ==
    /\ got' = [got EXCEPT ![r] = Listed(ps)] /\ Go(r, next)
    /\ UNCHANGED <<server, history>>

ListWindow(r) == At(r, "list") /\ ListAs(r, In(win[Pane(r)]), "roll")
ListAll(r) ==
    \/ Doing(r, "count") /\ ListAs(r, Open, "render")
    \/ Doing(r, "relist") /\ ListAs(r, Open, "redraw")

\* The window the pane is in now.
Roll(r) ==
    /\ At(r, "roll")
    /\ rolled' = [rolled EXCEPT ![win[Pane(r)]] = RollUp(got[r])]
    /\ got' = [got EXCEPT ![r] = <<>>]
    /\ Becomes(r, IF cmd[r].sweeping THEN Swept(cmd[r]) ELSE StatusCalls)
    /\ UNCHANGED <<mode, win, command, flag, status, due, history>>

Render(r) ==
    /\ Doing(r, "render")
    /\ status' = Counts(got[r])
    /\ got' = [got EXCEPT ![r] = <<>>] /\ Becomes(r, Rest(cmd[r]))
    /\ UNCHANGED <<mode, win, command, flag, rolled, due, history>>

\* Every listed window at once; a target that is gone ends the tmux call.
DrawWindows(r) ==
    LET list == got[r]
        windows == {list[p].win : p \in DOMAIN list}
    IN
    /\ Doing(r, "redraw")
    /\ \E drawn \in SUBSET windows :
           /\ (\A p \in DOMAIN list : Alive(p)) => drawn = windows
           /\ rolled' = [w \in Windows |->
                  IF w \in drawn /\ In(w) # {}
                  THEN RollUp([p \in {q \in DOMAIN list : list[q].win = w} |-> list[p]])
                  ELSE rolled[w]]
    /\ got' = [got EXCEPT ![r] = <<>>] /\ Becomes(r, StatusCalls)
    /\ UNCHANGED <<mode, win, command, flag, status, due, history>>

Next ==
    \/ \E p \in Panes : Close(p) \/ (\E w \in mode.windows : Move(p, w))
                            \/ (\E c \in Programs \cup {Shell} : Switch(p, c))
    \/ \E r \in Runners, p \in Panes : Clear(r, p) \/ Seen(r, p) \/ \E f \in mode.wanted : Set(r, p, f)
    \/ \E r \in Runners :
           \/ Hook(r) \/ Status(r) \/ List(r) \/ Redraw(r) \/ Missing(r)
           \/ Read(r) \/ Write(r) \/ Mark(r) \/ Again(r) \/ Unflag(r) \/ Drop(r) \/ Look(r)
           \/ Sweep(r) \/ Settle(r) \/ ListWindow(r) \/ ListAll(r)
           \/ Roll(r) \/ Render(r) \/ DrawWindows(r)

Spec == Init /\ [][Next]_vars
-----------------------------------------------------------------------------
OneAtATime == \A q, r \in mode.runners : q = r

Calls == {"none", "read", "write", "mark", "again", "unflag", "look", "sweep", "drop", "list",
          "roll", "settle", "count", "render", "relist", "redraw"}
OnAPane == {"read", "write", "mark", "again", "unflag", "look", "list", "roll"}
Commands == [at : Calls, pane : Panes \cup {Nobody}, want : Flags, sweeping : BOOLEAN,
             left : SUBSET Panes, dropped : BOOLEAN, counts : BOOLEAN, look : Panes \cup {Nobody}]

\* The variables take the values the code gives them: a call on a pane has
\* one, a rolled-up state is failed only if it is done, and so is a pane's
\* when commands run one at a time.
TypeOK ==
    /\ mode \in Modes
    /\ win \in [Panes -> Windows \cup {Nobody}]
    /\ command \in [Panes -> Programs \cup {Shell}]
    /\ flag \in [Panes -> Flags]
    /\ OneAtATime => \A p \in Panes : flag[p].failed => flag[p].state = "done"
    /\ rolled \in [Windows -> [state : States, failed : BOOLEAN]]
    /\ \A w \in Windows : rolled[w].failed => rolled[w].state = "done"
    /\ due \in Nat
    /\ cmd \in [Runners -> Commands]
    /\ \A r \in Runners : cmd[r].at \in OnAPane => Pane(r) \in Panes
    /\ stale \in [Runners -> SUBSET Panes]
    /\ named \in [Panes -> Programs \cup {Nobody}]

Quiet == due = 0 /\ \A r \in Runners : Doing(r, "none")

\* Once commands that run one at a time, and the hooks, have run, the status
\* bar counts the flags the panes have, whatever closed, moved or exited
\* between two of their calls.
CountsRight == Quiet /\ OneAtATime => status = Counts(Listed(Open))

\* Every window shows the highest-ranked flag of its panes.
RollUpsRight == \A w \in Windows : rolled[w] = RollUp(Listed(In(w)))

\* "window @attention_win the highest-ranked state among its panes", once
\* the commands and the hooks have run.
WindowsRight == Quiet => RollUpsRight

\* It is as long as panes stay where they are and commands run one at a time,
\* whatever programs exit and however tmux-init redraws the windows.
StillWindowsRight == Quiet /\ OneAtATime /\ ~mode.moving => RollUpsRight

\* A flag whose program was gone when a command started, and that was not
\* set again, is dropped before that command counts: the counts it renders
\* leave it out.
SweptBeforeCounted == \A r \in Runners : Doing(r, "render") => stale[r] = {}

\* "@attention_owner the command the flag belongs to, when one was named":
\* once the commands have run, a flag belongs to the program its last Set
\* named.
OwnerNamed ==
    Quiet => \A p \in Open : flag[p].state # "idle" => flag[p].owner = named[p]
=============================================================================
