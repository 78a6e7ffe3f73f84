------------------------------ MODULE AgentTitles ------------------------------
(***************************************************************************)
(* The window titles of agents: the hooks name a window after its agent's  *)
(* session and give the name back, and SweepTitles puts right what closed  *)
(* and moved panes leave.  Hooks, launchers and SweepAgents hold the agent *)
(* lock, but users, panes and SweepTitles hold none: they come between     *)
(* what one of the former reads of a window and what it does to it.        *)
(***************************************************************************)
EXTENDS Naturals, FiniteSets

CONSTANTS
    Terms,      \* panes
    Places,     \* windows; one without panes is closed
    Titled,     \* sessions, and the title each has from its first prompt
    Untitled,   \* no session, no title, no window
    User, Automatic, \* the user's name for a window, and tmux's
    MaxMeanwhile, \* other steps in the middle of one sweep
    Shapes      \* see shape

ASSUME TitlesAssumption ==
    /\ User \notin Titled /\ Automatic \notin Titled /\ User # Automatic
    /\ Untitled \notin Titled \cup Places \cup {User, Automatic}
    /\ \A x \in Shapes : x.places \subseteq Places /\ x.sessions \subseteq Titled

VARIABLES
    shape,      \* fixed: the windows and sessions there may be
    win,        \* of each window: its name, automatic-rename, @agent_title
    term,       \* of each pane: its window, whether an agent runs there, the
                \* session its options name, and @agent_named
    recorded,   \* the sessions whose record holds their title
    held,       \* what the holder of the agent lock has read of a pane and its
                \* window, if it has not done with it
    ended,      \* how the record says each ended: "exited", "killed" or "none"
    list,       \* what SweepTitles has read of each window it has not come to
    sweep,      \* SweepTitles: "none", "under way", or "done" and nothing
                \* has happened in it or since
    meanwhile,  \* how much has happened since its list
    given,      \* history: the windows named by their user, but for those a
                \* hook that had read them before then named over
    slipped     \* history: the windows with an agent's name whose mark went by
                \* what was read before it was set

tvars == <<shape, win, term, recorded, held, ended, list, sweep, meanwhile, given, slipped>>

Fresh == [name |-> Automatic, auto |-> TRUE, title |-> Untitled]
NewAt(w) == [window |-> w, runs |-> FALSE, session |-> Untitled, named |-> Untitled]
In(w) == {p \in Terms : term[p].window = w}
Opened(p) == term[p].window # Untitled
Win(p) == win[term[p].window]

TitlesInit ==
    /\ shape \in Shapes
    /\ win = [w \in Places |-> Fresh]
    /\ term = [p \in Terms |-> NewAt(Untitled)]
    /\ recorded = {} /\ held = <<>> /\ ended = [s \in Titled |-> "none"]
    /\ list = [w \in Places |-> <<>>] /\ sweep = "none" /\ meanwhile = 0
    /\ given = {} /\ slipped = {}
-----------------------------------------------------------------------------
\* What may come in the middle of a sweep.
Meanwhile ==
    IF sweep = "under way"
    THEN meanwhile < MaxMeanwhile /\ meanwhile' = meanwhile + 1 /\ UNCHANGED sweep
    ELSE sweep' = "none" /\ UNCHANGED meanwhile

\* What none of the hooks and users change.
Rest == <<shape, list>>

\* readLive, under the agent lock.
Read(p) ==
    /\ held = <<>> /\ Opened(p) /\ (term[p].runs \/ term[p].session # Untitled)
    /\ held' = <<[pane |-> p, was |-> Win(p), named |-> term[p].named]>>
    /\ UNCHANGED <<shape, win, term, recorded, ended, list, sweep, meanwhile, given, slipped>>

Holds(p) == held # <<>> /\ held[1].pane = p
Done(p) == Holds(p) /\ held' = <<>>

\* The hook has no more to do with the title, or a call of it fails.
Leave ==
    /\ held # <<>> /\ held' = <<>>
    /\ UNCHANGED <<shape, win, term, recorded, ended, list, sweep, meanwhile, given, slipped>>

\* A name that was given after the hook read another is lost.
Overtakes(p) ==
    LET w == term[p].window IN
    given' = IF held[1].was = Win(p) \/ win'[w].name = win[w].name THEN given ELSE given \ {w}

\* A window keeps the name that its mark was, and no mark.
Slips ==
    slipped' = {w \in Places : /\ w \in slipped \/ win[w].name = win[w].title
                               /\ win'[w].name = win[w].name /\ win'[w].title # win[w].name}

\* applyTitle: the name, and the mark that it is an agent's.
ApplyTitle(w, s) ==
    win' = [win EXCEPT ![w] = [name |-> s, auto |-> FALSE, title |-> s]]

\* releaseTitle: the window goes back to tmux when, as it was read, its name is
\* still the one this pane's agent set.
Release(p) ==
    LET read == held[1] IN
    /\ Done(p)
    /\ win' = IF read.named = Untitled \/ read.was.title # read.named THEN win
              ELSE [win EXCEPT ![term[p].window] =
                        IF read.was.name = read.named THEN Fresh ELSE [@ EXCEPT !.title = Untitled]]
    /\ Overtakes(p) /\ Slips

\* start: the resume of a session that has not exited brings its title back.
Start(p, s, resumed) ==
    LET back == resumed /\ s \in recorded /\ ended[s] # "exited" IN
    /\ held = <<>> /\ Opened(p) /\ (~term[p].runs \/ term[p].session = Untitled)
    /\ \A q \in Terms : term[q].runs => term[q].session # s
    /\ IF back THEN ApplyTitle(term[p].window, s) /\ given' = given \ {term[p].window}
       ELSE UNCHANGED <<win, given>>
    /\ term' = [term EXCEPT ![p].runs = TRUE, ![p].session = s,
                            ![p].named = IF back THEN s ELSE @]
    /\ recorded' = IF resumed /\ ended[s] = "exited" THEN recorded \ {s} ELSE recorded
    /\ ended' = [ended EXCEPT ![s] = "none"]
    /\ Slips /\ Meanwhile /\ UNCHANGED <<held, Rest>>

\* Mutant of Names: a turn's end names the window whoever has named it.
NamesAlways(p) == TRUE

Names(p) == held[1].was.auto

\* turnEnd: the window is named while tmux names it, as it was read.
TurnEnd(p) ==
    LET s == term[p].session IN
    /\ Done(p) /\ Opened(p) /\ term[p].runs /\ s # Untitled /\ Names(p)
    /\ ApplyTitle(term[p].window, s) /\ Overtakes(p)
    /\ term' = [term EXCEPT ![p].named = s]
    /\ recorded' = recorded \cup {s}
    /\ Slips /\ Meanwhile /\ UNCHANGED <<ended, Rest>>

\* end: the title goes; a session its user ended goes too.
End(p, exited) ==
    /\ Opened(p) /\ term[p].runs /\ term[p].session # Untitled
    /\ Release(p)
    /\ term' = [term EXCEPT ![p].named = Untitled, ![p].session = IF exited THEN Untitled ELSE @]
    /\ ended' = IF exited THEN [ended EXCEPT ![term[p].session] = "exited"] ELSE ended
    /\ Meanwhile /\ UNCHANGED <<recorded, Rest>>

\* The agent's process is over without a launcher to see it.
Quit(p) ==
    /\ Opened(p) /\ term[p].runs
    /\ term' = [term EXCEPT ![p].runs = FALSE]
    /\ Meanwhile /\ UNCHANGED <<win, recorded, held, ended, given, slipped, Rest>>

\* The launcher's finish: the title goes either way.
FinishTitle(p, how) ==
    LET s == term[p].session IN
    /\ Opened(p) /\ term[p].runs
    /\ Release(p)
    /\ term' = [term EXCEPT ![p].runs = FALSE, ![p].named = Untitled,
                            ![p].session = IF how = "killed" THEN @ ELSE Untitled]
    /\ ended' = IF s = Untitled THEN ended ELSE [ended EXCEPT ![s] = how]
    /\ Meanwhile /\ UNCHANGED <<recorded, Rest>>

\* SweepAgents lets go of an agent that is gone.
SweepGone(p) ==
    LET s == term[p].session IN
    /\ Opened(p) /\ ~term[p].runs /\ s # Untitled /\ ended[s] # "killed"
    /\ Release(p)
    /\ term' = [term EXCEPT ![p].named = Untitled, ![p].session = Untitled]
    /\ Meanwhile /\ UNCHANGED <<recorded, ended, Rest>>
-----------------------------------------------------------------------------
\* SweepTitles reads every window once.
SweepRead ==
    /\ sweep # "under way" /\ sweep' = "under way" /\ \E p \in Terms : Opened(p)
    /\ list' = [w \in Places |->
           IF In(w) = {} THEN <<>>
           ELSE <<[was |-> win[w], agents |-> {[id |-> p, session |-> term[p].session] : p \in {q \in In(w) : term[q].runs}}]>>]
    /\ UNCHANGED <<shape, win, term, recorded, held, ended, meanwhile, given, slipped>>

\* It comes to a window; one that is gone by now is no matter.
Window(w) ==
    /\ sweep = "under way" /\ list[w] # <<>>
    /\ list' = [list EXCEPT ![w] = <<>>]
    /\ IF \A v \in Places : list'[v] = <<>>
       THEN sweep' = (IF meanwhile = 0 THEN "done" ELSE "none") /\ meanwhile' = 0
       ELSE UNCHANGED <<sweep, meanwhile>>
    /\ UNCHANGED <<shape, recorded, held, ended>>

\* A title and no agent.
SweepUntitle(w) ==
    LET was == list[w][1].was IN
    /\ Window(w) /\ was.title # Untitled /\ list[w][1].agents = {}
    /\ win' = IF In(w) = {} THEN win
              ELSE [win EXCEPT ![w] = IF was.title = was.name THEN Fresh ELSE [@ EXCEPT !.title = Untitled]]
    /\ Slips /\ UNCHANGED <<term, given>>

\* An agent under tmux's name: the first of them with a recorded title.
SweepTitle(w) ==
    LET titles == {a \in list[w][1].agents : a.session \in recorded} IN
    /\ Window(w) /\ list[w][1].was.auto /\ titles # {}
    /\ \E a \in titles :
           IF In(w) = {} THEN UNCHANGED <<win, term>>
           ELSE /\ ApplyTitle(w, a.session)
                /\ term' = IF Opened(a.id) THEN [term EXCEPT ![a.id].named = a.session] ELSE term
    /\ Slips /\ UNCHANGED given

SweepNothing(w) ==
    LET was == list[w][1].was
        agents == list[w][1].agents
    IN
    /\ Window(w)
    /\ agents = {} => was.title = Untitled
    /\ was.auto => {a \in agents : a.session \in recorded} = {}
    /\ UNCHANGED <<win, term, given, slipped>>
-----------------------------------------------------------------------------
\* Users name windows and give them back, also while a hook is at work, but not
\* in the middle of a sweep.
UserNames(w) ==
    /\ sweep # "under way" /\ In(w) # {}
    /\ win' = [win EXCEPT ![w].name = User, ![w].auto = FALSE]
    /\ given' = given \cup {w}
    /\ Slips /\ Meanwhile /\ UNCHANGED <<term, recorded, held, ended, Rest>>

UserGivesBack(w) ==
    /\ sweep # "under way" /\ In(w) # {} /\ ~win[w].auto
    /\ win' = [win EXCEPT ![w].name = Automatic, ![w].auto = TRUE]
    /\ given' = given \ {w}
    /\ Slips /\ Meanwhile /\ UNCHANGED <<term, recorded, held, ended, Rest>>

\* A pane goes to another window, closes with what runs in it, or opens.  A
\* window closes with its last pane, and another takes its place here.
PaneTo(p, w) ==
    /\ term[p].window # w
    /\ w # Untitled => In(w) # {} \/ list[w] = <<>>
    /\ term' = [term EXCEPT ![p] =
           IF w = Untitled \/ ~Opened(p)
           THEN NewAt(w)
           ELSE [@ EXCEPT !.window = w]]
    /\ LET closed == {v \in Places : In(v) = {p}} IN
           /\ win' = [v \in Places |-> IF v \in closed THEN Fresh ELSE win[v]]
           /\ given' = given \ closed
    /\ held' = IF Holds(p) /\ w = Untitled THEN <<>> ELSE held
    /\ Slips /\ Meanwhile /\ UNCHANGED <<recorded, ended, Rest>>

TitlesNext ==
    \/ \E p \in Terms :
           \/ \E s \in shape.sessions, resumed \in BOOLEAN : Start(p, s, resumed)
           \/ Read(p) \/ TurnEnd(p) \/ Quit(p) \/ SweepGone(p)
           \/ \E exited \in BOOLEAN : End(p, exited)
           \/ \E how \in {"exited", "killed"} : FinishTitle(p, how)
           \/ \E w \in shape.places \cup {Untitled} : PaneTo(p, w)
    \/ Leave \/ SweepRead
    \/ \E w \in Places :
           SweepUntitle(w) \/ SweepTitle(w) \/ SweepNothing(w) \/ UserNames(w) \/ UserGivesBack(w)

TitlesSpec == TitlesInit /\ [][TitlesNext]_tvars
-----------------------------------------------------------------------------
\* Every variable keeps its type.
TitlesTypeOK ==
    /\ win \in [Places -> [name : Titled \cup {User, Automatic}, auto : BOOLEAN, title : Titled \cup {Untitled}]]
    /\ term \in [Terms -> [window : Places \cup {Untitled}, runs : BOOLEAN,
                           session : Titled \cup {Untitled}, named : Titled \cup {Untitled}]]
    /\ recorded \subseteq Titled /\ ended \in [Titled -> {"none", "exited", "killed"}]

\* A window its user named keeps that name, but for the resume of a session in
\* it, which "brings back its window title", and for a hook that read the window
\* before.  And "a window that carries an agent's title but runs no agent gets its
\* automatic name back.  The other way round, an agent running under tmux's
\* automatic name gets its session's recorded title back": a sweep that nothing
\* disturbs leaves it so, whatever went on during those before it.
NamesBelong ==
    \A w \in Places :
        /\ w \in given => win[w].name = User /\ ~win[w].auto
        /\ sweep = "done" /\ w \notin slipped /\ In(w) # {} =>
               LET agents == {p \in In(w) : term[p].runs} IN
               /\ agents = {} => win[w].title = Untitled /\ (win[w].auto \/ w \in given)
               /\ win[w].auto => \A p \in agents : term[p].session \notin recorded
=============================================================================
