-------------------------- MODULE AgentTitles_proofs --------------------------
(***************************************************************************)
(* A name its user gave stays, and a sweep that nothing disturbs leaves    *)
(* every window with its own name: NamesBelong for any panes, windows and  *)
(* sessions, and however much happens in the middle of other sweeps.  At   *)
(* the end, that what is proved of this model and of AgentSession is true  *)
(* of their composition, which TLC runs.                                   *)
(***************************************************************************)
EXTENDS MCAgentSession, AgentSession_proofs

Agents(w) == {[id |-> p, session |-> term[p].session] : p \in {q \in In(w) : term[q].runs}}

Windows == [name : Titled \cup {User, Automatic}, auto : BOOLEAN, title : Titled \cup {Untitled}]
Panes == [window : Places \cup {Untitled}, runs : BOOLEAN,
          session : Titled \cup {Untitled}, named : Titled \cup {Untitled}]
Entries == [was : Windows, agents : SUBSET [id : Terms, session : Titled \cup {Untitled}]]

\* A window is listed until the sweep comes to it.
Listed(w) == list[w] # <<>>
Entry(w) == list[w][1]

ListTypes ==
    /\ DOMAIN list = Places
    /\ \A w \in Places : Listed(w) => Entry(w) \in Entries

TitleTypes ==
    /\ TitlesTypeOK /\ ListTypes
    /\ shape \in Shapes /\ given \subseteq Places /\ meanwhile \in Nat
    /\ sweep \in {"none", "under way", "done"}
    /\ held # <<>> => held[1].named \in Titled \cup {Untitled}

\* Between sweeps nothing is listed.
Listless == sweep # "under way" => meanwhile = 0 /\ \A w \in Places : ~Listed(w)

\* A window its user named was listed as one.
UsersKeep ==
    \A w \in given :
        /\ win[w].name = User /\ ~win[w].auto
        /\ Listed(w) => Entry(w).was.name = User /\ ~Entry(w).was.auto

\* A name that is neither tmux's nor the user's is the one the mark says, but for
\* one whose mark was lost.
NameMarked ==
    \A w \in Places :
        /\ win[w].auto \/ w \in given \/ w \in slipped \/ win[w].name = win[w].title
        /\ w \in slipped => win[w].name # win[w].title

\* What a sweep is to leave behind.
Settled(w) ==
    LET agents == {p \in In(w) : term[p].runs} IN
    /\ agents = {} => win[w].title = Untitled /\ (win[w].auto \/ w \in given)
    /\ win[w].auto => \A p \in agents : term[p].session \notin recorded

\* While nothing has happened since the list, it still tells the truth, and the
\* windows that are done stay so.
Undisturbed == sweep # "none" /\ meanwhile = 0
Swept ==
    Undisturbed =>
        \A w \in Places : In(w) # {} =>
            IF Listed(w) THEN Entry(w).was = win[w] /\ Entry(w).agents = Agents(w)
            ELSE w \in slipped \/ Settled(w)

TitlesInv == TitleTypes /\ Listless /\ UsersKeep /\ NameMarked /\ Swept
-----------------------------------------------------------------------------
\* One step of a hook, a launcher, SweepAgents or a user.
OtherWindows ==
    \/ \E p \in Terms :
           \/ \E s \in shape.sessions, resumed \in BOOLEAN : Start(p, s, resumed)
           \/ TurnEnd(p) \/ Quit(p) \/ SweepGone(p) \/ Read(p)
           \/ \E exited \in BOOLEAN : End(p, exited)
           \/ \E how \in {"exited", "killed"} : FinishTitle(p, how)
           \/ \E w \in shape.places \cup {Untitled} : PaneTo(p, w)
    \/ Leave
    \/ \E w \in Places : UserNames(w) \/ UserGivesBack(w)

Sweeping(w) == SweepUntitle(w) \/ SweepTitle(w) \/ SweepNothing(w)

\* A step is the sweep's own or another's.
LEMMA NextSplits == TitlesNext => OtherWindows \/ SweepRead \/ \E w \in Places : Sweeping(w)
  BY DEF TitlesNext, OtherWindows, Sweeping

\* Whatever is not the sweep's own ends the time in which nothing has happened.
LEMMA MeanwhileDisturbs ==
  ASSUME TitleTypes, Listless, Meanwhile, UNCHANGED list
  PROVE  Listless' /\ ~Undisturbed' /\ sweep' \in {"none", "under way", "done"} /\ meanwhile' \in Nat
<1>1. \A w \in Places : Listed(w)' = Listed(w)
  BY DEF Listed
<1>2. CASE sweep = "under way"
  <2>1. meanwhile \in Nat /\ meanwhile' = meanwhile + 1 /\ sweep' = sweep
    BY <1>2 DEF TitleTypes, Meanwhile
  <2>2. meanwhile' \in Nat /\ meanwhile' # 0
    BY <2>1
  <2> QED
    BY <1>2, <2>1, <2>2 DEF Listless, Undisturbed
<1>3. CASE sweep # "under way"
  <2>1. sweep' = "none" /\ meanwhile' = meanwhile /\ meanwhile \in Nat
    BY <1>3 DEF TitleTypes, Meanwhile
  <2> QED
    BY <1>1, <1>3, <2>1 DEF Listless, Undisturbed
<1> QED
  BY <1>2, <1>3

\* A window whose name and mark stay is as it was in the history.
LEMMA Unslipped ==
  ASSUME Slips, NameMarked, NEW v \in Places, win'[v] = win[v]
  PROVE  v \in slipped' <=> v \in slipped
BY DEF Slips, NameMarked

\* What changes one window alone keeps names and marks, when that window has
\* tmux's name, or its user's, or the mark's, or the name it had.
LEMMA MarksKept ==
  ASSUME Slips, NameMarked, NEW w \in Places,
         \A v \in Places : v # w => win'[v] = win[v] /\ (v \in given => v \in given'),
         \/ win'[w].auto \/ w \in given' \/ win'[w].name = win'[w].title
         \/ /\ win'[w].name = win[w].name /\ win'[w].auto = win[w].auto
            /\ w \in given => w \in given'
  PROVE  NameMarked'
<1> SUFFICES ASSUME NEW v \in Places
             PROVE  /\ win'[v].auto \/ v \in given' \/ v \in slipped' \/ win'[v].name = win'[v].title
                    /\ v \in slipped' => win'[v].name # win'[v].title
  BY DEF NameMarked
<1>1. v \in slipped' => win'[v].name # win'[v].title
  BY DEF Slips
<1>2. win'[v].auto \/ v \in given' \/ v \in slipped' \/ win'[v].name = win'[v].title
  BY DEF Slips, NameMarked
<1> QED BY <1>1, <1>2

\* What Release writes are windows; only the one of the pane may change, and the
\* history forgets its user's name only if a hook named over it.
LEMMA ReleaseTypes ==
  ASSUME TitleTypes, NEW p \in Terms, Opened(p), Release(p)
  PROVE  /\ win' \in [Places -> Windows] /\ given' \subseteq given
         /\ \A v \in Places : v # term[p].window => win'[v] = win[v] /\ (v \in given => v \in given')
<1> DEFINE w == term[p].window
<1>1. w \in Places /\ win[w] \in Windows /\ win \in [Places -> Windows]
  BY DEF TitleTypes, TitlesTypeOK, Opened, Windows
<1>2. \/ win' = win \/ win' = [win EXCEPT ![w] = Fresh]
      \/ win' = [win EXCEPT ![w] = [win[w] EXCEPT !.title = Untitled]]
  BY DEF Release
<1>3. Fresh \in Windows
  BY DEF Fresh, Windows
<1>4. [win[w] EXCEPT !.title = Untitled] \in Windows
  BY <1>1 DEF Windows
<1>5. given' = given \/ given' = given \ {w}
  BY DEF Release, Overtakes
<1>6. win' \in [Places -> Windows]
  BY <1>1, <1>2, <1>3, <1>4
<1>7. \A v \in Places : v # w => win'[v] = win[v]
  BY <1>1, <1>2
<1> QED
  BY <1>5, <1>6, <1>7

\* What ApplyTitle writes is a window.
LEMMA ApplyTypes ==
  ASSUME TitleTypes, NEW w \in Places, NEW s \in Titled, ApplyTitle(w, s)
  PROVE  win' \in [Places -> Windows]
<1>1. [name |-> s, auto |-> FALSE, title |-> s] \in Windows
  BY DEF Windows
<1> QED
  BY <1>1 DEF ApplyTitle, TitleTypes, TitlesTypeOK, Windows

\* Release gives back only what an agent named, when its hook last looked.
LEMMA ReleaseKeeps ==
  ASSUME TitleTypes, UsersKeep, NameMarked, NEW p \in Terms, Opened(p), Release(p), UNCHANGED list
  PROVE  UsersKeep' /\ NameMarked'
<1> DEFINE w == term[p].window  read == held[1]
<1>1. w \in Places /\ win[w] \in Windows /\ win \in [Places -> Windows] /\ given \subseteq Places
  BY DEF TitleTypes, TitlesTypeOK, Opened, Windows
<1>2. /\ \A v \in Places : Listed(v)' = Listed(v) /\ Entry(v)' = Entry(v)
      /\ given' \subseteq given /\ Slips
      /\ \A v \in Places : v # w => win'[v] = win[v] /\ (v \in given => v \in given')
  BY ReleaseTypes DEF Listed, Entry, Release
<1>3. \/ win'[w] = Fresh /\ w \notin given'
      \/ /\ win'[w].name = win[w].name /\ win'[w].auto = win[w].auto
         /\ w \in given <=> w \in given'
  <2>1. CASE win' = win
    BY <2>1 DEF Release, Overtakes
  <2>2. CASE win' # win
    <3>1. /\ read.named # Untitled /\ read.was.title = read.named
          /\ win' = [win EXCEPT ![w] = IF read.was.name = read.named THEN Fresh
                                       ELSE [win[w] EXCEPT !.title = Untitled]]
      BY <2>2 DEF Release
    <3>2. CASE read.was.name = read.named
      <4>1. win'[w] = Fresh
        BY <1>1, <3>1, <3>2
      <4>2. read.named \in Titled
        BY <3>1 DEF TitleTypes, Release, Done, Holds
      <4>3. w \in given => win[w].name = User
        BY DEF UsersKeep
      <4>4. CASE read.was = win[w]
        <5>1. win[w].name # User
          BY <3>2, <4>2, <4>4, TitlesAssumption
        <5> QED BY <1>2, <4>1, <4>3, <5>1
      <4>5. CASE read.was # win[w] /\ w \in given
        <5>1. win'[w].name # win[w].name
          BY <4>1, <4>3, <4>5, TitlesAssumption DEF Fresh
        <5>2. given' = given \ {w}
          BY <4>5, <5>1 DEF Release, Overtakes, Win
        <5> QED BY <4>1, <5>2
      <4> QED BY <1>2, <4>1, <4>4, <4>5
    <3>3. CASE read.was.name # read.named
      <4>1. win'[w] = [win[w] EXCEPT !.title = Untitled]
        BY <1>1, <3>1, <3>3
      <4>2. win'[w].name = win[w].name /\ win'[w].auto = win[w].auto
        BY <1>1, <4>1 DEF Windows
      <4>3. given' = given
        BY <4>2 DEF Release, Overtakes
      <4> QED BY <4>2, <4>3
    <3> QED BY <3>2, <3>3
  <2> QED BY <2>1, <2>2
<1>4. UsersKeep'
  BY <1>1, <1>2, <1>3 DEF UsersKeep
<1>5. win'[w].auto \/ (/\ win'[w].name = win[w].name /\ win'[w].auto = win[w].auto /\ (w \in given => w \in given'))
  BY <1>3 DEF Fresh
<1> QED BY <1>1, <1>2, <1>4, <1>5, MarksKept

\* ApplyTitle on a window that its user has not named, as far as its hook knows.
LEMMA ApplyKeeps ==
  ASSUME TitleTypes, UsersKeep, NameMarked, NEW w \in Places, NEW s \in Titled, ApplyTitle(w, s),
         given' \subseteq given \ {w}, Slips,
         \A v \in Places : Listed(v)' => Listed(v) /\ Entry(v)' = Entry(v),
         \A v \in Places \ {w} : v \in given => v \in given'
  PROVE  UsersKeep' /\ NameMarked'
<1>1. given \subseteq Places
  BY DEF TitleTypes
<1>2. /\ win'[w] = [name |-> s, auto |-> FALSE, title |-> s]
      /\ \A v \in Places : v # w => win'[v] = win[v]
  BY DEF ApplyTitle, TitleTypes, TitlesTypeOK
<1>3. UsersKeep'
  BY <1>1, <1>2 DEF UsersKeep
<1>4. NameMarked'
  BY <1>2, MarksKept
<1> QED BY <1>3, <1>4
-----------------------------------------------------------------------------
\* A step that none of a sweep takes keeps the invariant, once its types and its
\* names are right.
LEMMA OthersKeep ==
  ASSUME TitlesInv, Meanwhile, UNCHANGED Rest,
         TitlesTypeOK', given' \subseteq Places, UsersKeep', NameMarked', held' \in {held, <<>>}
  PROVE  TitlesInv'
<1>1. \A v \in Places : Listed(v)' = Listed(v) /\ Entry(v)' = Entry(v)
  BY DEF Listed, Entry, Rest
<1>2. Listless' /\ ~Undisturbed' /\ sweep' \in {"none", "under way", "done"} /\ meanwhile' \in Nat
  BY MeanwhileDisturbs DEF TitlesInv, Rest
<1>3. ListTypes' /\ shape' \in Shapes
  BY <1>1 DEF ListTypes, TitlesInv, TitleTypes, Rest
<1> QED
  BY <1>2, <1>3 DEF TitlesInv, TitleTypes, Swept
-----------------------------------------------------------------------------
\* The handlers of the agent lock.
LEMMA StartKeeps ==
  ASSUME TitlesInv, NEW p \in Terms, NEW s \in shape.sessions, NEW resumed \in BOOLEAN, Start(p, s, resumed)
  PROVE  TitlesInv'
<1> DEFINE known == resumed /\ s \in recorded /\ ended[s] # "exited"
<1>1. s \in Titled /\ term[p].window \in Places /\ TitleTypes /\ UsersKeep /\ NameMarked /\ UNCHANGED list /\ Slips
  BY TitlesAssumption DEF TitlesInv, TitleTypes, TitlesTypeOK, Start, Opened, Rest
<1>2. win' \in [Places -> Windows] /\ given' \subseteq Places /\ UsersKeep' /\ NameMarked'
  <2>1. CASE known
    <3>1. ApplyTitle(term[p].window, s) /\ given' = given \ {term[p].window}
      BY <2>1 DEF Start
    <3>2. \A v \in Places : Listed(v)' = Listed(v) /\ Entry(v)' = Entry(v)
      BY <1>1 DEF Listed, Entry
    <3> QED BY <1>1, <3>1, <3>2, ApplyTypes, ApplyKeeps DEF TitleTypes
  <2>2. CASE ~known
    <3>1. win' = win /\ given' = given
      BY <2>2 DEF Start
    <3>2. \A v \in Places : Listed(v)' = Listed(v) /\ Entry(v)' = Entry(v)
      BY <1>1 DEF Listed, Entry
    <3>3. NameMarked'
      BY <1>1, <3>1, MarksKept
    <3> QED BY <1>1, <3>1, <3>2, <3>3 DEF TitleTypes, TitlesTypeOK, Windows, UsersKeep
  <2> QED BY <2>1, <2>2
<1>3. TitlesTypeOK'
  <2>1. term' \in [Terms -> Panes]
    <3> DEFINE r == [term[p] EXCEPT !.runs = TRUE, !.session = s, !.named = IF known THEN s ELSE term[p].named]
    <3>1. term \in [Terms -> Panes]
      BY <1>1 DEF TitleTypes, TitlesTypeOK, Panes
    <3>2. r \in Panes
      <4>1. term[p] \in Panes
        BY <3>1
      <4>2. (IF known THEN s ELSE term[p].named) \in Titled \cup {Untitled}
        BY <1>1, <4>1 DEF Panes
      <4> HIDE DEF known
      <4> QED BY <1>1, <4>1, <4>2 DEF Panes
    <3>3. term' = [term EXCEPT ![p] = r]
      BY DEF Start
    <3> HIDE DEF r
    <3> QED BY <3>1, <3>2, <3>3
  <2>2. recorded' \subseteq Titled /\ ended' \in [Titled -> {"none", "exited", "killed"}]
    BY <1>1 DEF Start, TitleTypes, TitlesTypeOK
  <2> QED BY <1>2, <2>1, <2>2 DEF TitlesTypeOK, Windows, Panes
<1> QED
  BY <1>2, <1>3, OthersKeep DEF Start

\* A turn's end names only a window that tmux named when its hook looked.
LEMMA TurnEndKeeps ==
  ASSUME TitlesInv, NEW p \in Terms, TurnEnd(p)
  PROVE  TitlesInv'
<1> DEFINE s == term[p].session  w == term[p].window
<1>1. s \in Titled /\ w \in Places /\ TitleTypes /\ UsersKeep /\ NameMarked /\ UNCHANGED list /\ Slips
  BY TitlesAssumption DEF TitlesInv, TitleTypes, TitlesTypeOK, TurnEnd, Opened, Rest
<1>2. ApplyTitle(w, s) /\ given' \subseteq given \ {w} /\ \A v \in Places \ {w} : v \in given => v \in given'
  <2>1. ApplyTitle(w, s) /\ Overtakes(p) /\ held[1].was.auto
    BY DEF TurnEnd, Names
  <2>2. given' = given \/ given' = given \ {w}
    BY <2>1 DEF Overtakes
  <2>3. CASE w \in given
    <3>1. win[w].name = User /\ ~win[w].auto
      BY <1>1, <2>3 DEF UsersKeep
    <3>2. win'[w].name = s
      BY <1>1, <2>1 DEF ApplyTitle, TitleTypes, TitlesTypeOK
    <3>3. s # User /\ held[1].was # win[w]
      BY <1>1, <2>1, <3>1, TitlesAssumption
    <3>4. given' = given \ {w}
      BY <2>1, <3>1, <3>2, <3>3 DEF Overtakes, Win
    <3> QED BY <2>1, <3>4
  <2> QED BY <2>1, <2>2, <2>3
<1>3. win' \in [Places -> Windows] /\ UsersKeep' /\ NameMarked'
  <2>1. \A v \in Places : Listed(v)' = Listed(v) /\ Entry(v)' = Entry(v)
    BY <1>1 DEF Listed, Entry
  <2> QED BY <1>1, <1>2, <2>1, ApplyTypes, ApplyKeeps
<1>4. TitlesTypeOK'
  <2>1. term' \in [Terms -> Panes]
    <3>1. term \in [Terms -> Panes]
      BY <1>1 DEF TitleTypes, TitlesTypeOK, Panes
    <3>2. [term[p] EXCEPT !.named = s] \in Panes
      BY <1>1, <3>1 DEF Panes
    <3>3. term' = [term EXCEPT ![p] = [term[p] EXCEPT !.named = s]]
      BY DEF TurnEnd
    <3> QED BY <3>1, <3>2, <3>3
  <2>2. recorded' \subseteq Titled /\ ended' \in [Titled -> {"none", "exited", "killed"}]
    BY <1>1 DEF TurnEnd, TitleTypes, TitlesTypeOK
  <2> QED BY <1>3, <2>1, <2>2 DEF TitlesTypeOK, Windows, Panes
<1> QED
  BY <1>1, <1>2, <1>3, <1>4, OthersKeep DEF TurnEnd, Done, TitleTypes

\* The ends of an agent: its own, its launcher's and SweepAgents'.
LEMMA ReleasesKeep ==
  ASSUME TitlesInv, NEW p \in Terms,
         (\E exited \in BOOLEAN : End(p, exited)) \/ (\E how \in {"exited", "killed"} : FinishTitle(p, how)) \/ SweepGone(p)
  PROVE  TitlesInv'
<1>1. Opened(p) /\ Release(p) /\ Meanwhile /\ UNCHANGED Rest /\ TitleTypes /\ UsersKeep /\ NameMarked
  BY DEF End, FinishTitle, SweepGone, TitlesInv
<1>2. win' \in [Places -> Windows] /\ given' \subseteq given /\ UsersKeep' /\ NameMarked' /\ held' = <<>>
  BY <1>1, ReleaseTypes, ReleaseKeeps DEF Rest, Release, Done
<1>3. TitlesTypeOK'
  <2>1. term' \in [Terms -> Panes]
    <3>1. term[p] \in Panes /\ term \in [Terms -> Panes]
      BY <1>1 DEF TitleTypes, TitlesTypeOK, Panes
    <3>2. \A session \in {term[p].session, Untitled} : \A runs \in {term[p].runs, FALSE} :
            [term[p] EXCEPT !.runs = runs, !.named = Untitled, !.session = session] \in Panes
      BY <3>1 DEF Panes
    <3>3. PICK session \in {term[p].session, Untitled}, runs \in {term[p].runs, FALSE} :
            term' = [term EXCEPT ![p] = [term[p] EXCEPT !.runs = runs, !.named = Untitled, !.session = session]]
      <4>1. CASE \E exited \in BOOLEAN : End(p, exited)
        <5> PICK exited \in BOOLEAN : End(p, exited)
          BY <4>1
        <5>1. [term[p] EXCEPT !.named = Untitled, !.session = IF exited THEN Untitled ELSE @]
              = [term[p] EXCEPT !.runs = term[p].runs, !.named = Untitled,
                                !.session = IF exited THEN Untitled ELSE term[p].session]
          BY <3>1 DEF Panes
        <5> QED BY <5>1 DEF End
      <4>2. CASE \E how \in {"exited", "killed"} : FinishTitle(p, how)
        BY <4>2 DEF FinishTitle
      <4>3. CASE SweepGone(p)
        <5>1. [term[p] EXCEPT !.named = Untitled, !.session = Untitled]
              = [term[p] EXCEPT !.runs = term[p].runs, !.named = Untitled, !.session = Untitled]
          BY <3>1 DEF Panes
        <5> QED BY <4>3, <5>1 DEF SweepGone
      <4> QED BY <4>1, <4>2, <4>3
    <3> QED BY <3>1, <3>2, <3>3
  <2>2. recorded' \subseteq Titled /\ ended' \in [Titled -> {"none", "exited", "killed"}]
    <3>1. /\ recorded' = recorded
          /\ ended' = ended \/ \E how \in {"exited", "killed"} : ended' = [ended EXCEPT ![term[p].session] = how]
      BY DEF End, FinishTitle, SweepGone
    <3> QED BY <1>1, <3>1 DEF TitleTypes, TitlesTypeOK
  <2> QED BY <1>2, <2>1, <2>2 DEF TitlesTypeOK, Windows, Panes
<1> QED
  BY <1>1, <1>2, <1>3, OthersKeep DEF TitleTypes

\* An agent that is over says nothing, and changes no window.
LEMMA QuitKeeps ==
  ASSUME TitlesInv, NEW p \in Terms, Quit(p)
  PROVE  TitlesInv'
<1>1. TitleTypes /\ UsersKeep /\ NameMarked /\ UNCHANGED <<list, slipped, given, win>>
  BY DEF TitlesInv, Quit, Rest
<1>2. \A v \in Places : Listed(v)' = Listed(v) /\ Entry(v)' = Entry(v)
  BY <1>1 DEF Listed, Entry
<1>3. UsersKeep' /\ NameMarked'
  BY <1>1, <1>2 DEF TitleTypes, UsersKeep, NameMarked
<1>4. TitlesTypeOK'
  BY DEF Quit, TitlesInv, TitleTypes, TitlesTypeOK
<1> QED
  BY <1>1, <1>3, <1>4, OthersKeep DEF Quit, TitleTypes
-----------------------------------------------------------------------------
\* Users, and panes that come and go.
LEMMA PaneToKeeps ==
  ASSUME TitlesInv, NEW p \in Terms, NEW w \in shape.places \cup {Untitled}, PaneTo(p, w)
  PROVE  TitlesInv'
<1> DEFINE closed == {v \in Places : In(v) = {p}}
<1>1. w \in Places \cup {Untitled} /\ TitleTypes /\ UsersKeep /\ NameMarked /\ UNCHANGED list /\ Slips
  BY TitlesAssumption DEF TitlesInv, TitleTypes, PaneTo, Rest
<1>2. win' = [v \in Places |-> IF v \in closed THEN Fresh ELSE win[v]] /\ given' = given \ closed
  BY DEF PaneTo
<1>3. \A v \in Places : Listed(v)' = Listed(v) /\ Entry(v)' = Entry(v)
  BY <1>1 DEF Listed, Entry
<1>4. UsersKeep' /\ NameMarked' /\ given' \subseteq Places
  <2>1. UsersKeep' /\ given' \subseteq Places
    BY <1>1, <1>2, <1>3 DEF TitleTypes, UsersKeep, Fresh
  <2>2. \A v \in Places : v \in slipped' => win'[v].name # win'[v].title
    BY <1>1 DEF Slips
  <2>3. \A v \in closed : win'[v].auto
    BY <1>2 DEF Fresh
  <2>4. \A v \in Places \ closed : win'[v] = win[v] /\ (v \in given => v \in given') /\ (v \in slipped => v \in slipped')
    BY <1>1, <1>2, Unslipped
  <2> HIDE DEF closed
  <2> QED BY <1>1, <2>1, <2>2, <2>3, <2>4 DEF NameMarked
<1>5. TitlesTypeOK'
  <2>1. term' \in [Terms -> Panes]
    <3>1. term \in [Terms -> Panes]
      BY <1>1 DEF TitleTypes, TitlesTypeOK, Panes
    <3>2. NewAt(w) \in Panes
      BY <1>1 DEF NewAt, Panes
    <3>3. [term[p] EXCEPT !.window = w] \in Panes
      BY <1>1, <3>1 DEF Panes
    <3>4. term' = [term EXCEPT ![p] = NewAt(w)] \/ term' = [term EXCEPT ![p] = [term[p] EXCEPT !.window = w]]
      BY DEF PaneTo
    <3> QED BY <3>1, <3>2, <3>3, <3>4
  <2>2. Fresh \in Windows
    BY DEF Fresh, Windows
  <2>3. win' \in [Places -> Windows]
    BY <1>1, <1>2, <2>2 DEF TitleTypes, TitlesTypeOK, Windows
  <2> QED BY <1>1, <2>1, <2>3 DEF PaneTo, TitleTypes, TitlesTypeOK, Windows, Panes
<1> QED
  BY <1>4, <1>5, OthersKeep DEF PaneTo

\* Users act between sweeps, when nothing is listed.
LEMMA UsersActKeeps ==
  ASSUME TitlesInv, NEW w \in Places, UserNames(w) \/ UserGivesBack(w)
  PROVE  TitlesInv'
<1>1. /\ TitleTypes /\ UsersKeep /\ NameMarked /\ UNCHANGED list /\ Slips
      /\ \A v \in Places : ~Listed(v)
  BY DEF TitlesInv, Listless, UserNames, UserGivesBack, Rest
<1>2. \A v \in Places : ~Listed(v)'
  BY <1>1 DEF Listed
<1>3. PICK v \in Windows :
        /\ win' = [win EXCEPT ![w] = v]
        /\ \/ given' = given \cup {w} /\ v.name = User /\ ~v.auto
           \/ given' = given \ {w} /\ v.auto
  <2>1. win[w] \in Windows
    BY <1>1 DEF TitleTypes, TitlesTypeOK, Windows
  <2>2. /\ [win[w] EXCEPT !.name = User, !.auto = FALSE] \in Windows
        /\ [win[w] EXCEPT !.name = Automatic, !.auto = TRUE] \in Windows
    BY <2>1 DEF Windows
  <2>3. CASE UserNames(w)
    <3>1. win' = [win EXCEPT ![w] = [win[w] EXCEPT !.name = User, !.auto = FALSE]] /\ given' = given \cup {w}
      BY <2>3 DEF UserNames
    <3>2. /\ [win[w] EXCEPT !.name = User, !.auto = FALSE].name = User
          /\ ~[win[w] EXCEPT !.name = User, !.auto = FALSE].auto
      BY <2>1 DEF Windows
    <3> QED BY <2>2, <3>1, <3>2
  <2>4. CASE UserGivesBack(w)
    <3>1. win' = [win EXCEPT ![w] = [win[w] EXCEPT !.name = Automatic, !.auto = TRUE]] /\ given' = given \ {w}
      BY <2>4 DEF UserGivesBack
    <3>2. [win[w] EXCEPT !.name = Automatic, !.auto = TRUE].auto
      BY <2>1 DEF Windows
    <3> QED BY <2>2, <3>1, <3>2
  <2> QED BY <2>3, <2>4
<1>4. UsersKeep' /\ NameMarked' /\ given' \subseteq Places
  <2>1. win'[w] = v /\ \A u \in Places : u # w => win'[u] = win[u] /\ (u \in given => u \in given')
    BY <1>1, <1>3 DEF TitleTypes, TitlesTypeOK
  <2>2. NameMarked'
    BY <1>1, <1>3, <2>1, MarksKept
  <2> QED BY <1>1, <1>2, <1>3, <2>1, <2>2 DEF TitleTypes, UsersKeep
<1>5. TitlesTypeOK'
  <2>1. win' \in [Places -> Windows] /\ UNCHANGED <<term, recorded, ended>>
    BY <1>1, <1>3 DEF UserNames, UserGivesBack, TitleTypes, TitlesTypeOK, Windows
  <2> QED BY <1>1, <2>1 DEF TitleTypes, TitlesTypeOK, Windows
<1> QED
  BY <1>4, <1>5, OthersKeep DEF UserNames, UserGivesBack

\* A hook that only looks, or has nothing more to do.
LEMMA HeldKeeps ==
  ASSUME TitlesInv, (\E p \in Terms : Read(p)) \/ Leave
  PROVE  TitlesInv'
<1>1. UNCHANGED <<shape, win, term, recorded, ended, list, sweep, meanwhile, given, slipped>>
  BY DEF Read, Leave
<1>2. held' # <<>> => held'[1].named \in Titled \cup {Untitled}
  <2>1. CASE Leave
    BY <2>1 DEF Leave
  <2>2. CASE \E p \in Terms : Read(p)
    <3> PICK p \in Terms : Read(p)
      BY <2>2
    <3>1. held'[1].named = term[p].named
      BY DEF Read
    <3> QED BY <3>1 DEF TitlesInv, TitleTypes, TitlesTypeOK
  <2> QED BY <2>1, <2>2
<1>3. \A w : /\ Listed(w)' = Listed(w) /\ Entry(w)' = Entry(w) /\ In(w)' = In(w)
             /\ Agents(w)' = Agents(w) /\ Settled(w)' = Settled(w)
  BY <1>1 DEF Listed, Entry, In, Agents, Settled
<1>4. TitleTypes' /\ Listless'
  BY <1>1, <1>2, <1>3 DEF TitlesInv, TitleTypes, TitlesTypeOK, ListTypes, Listless
<1>5. UsersKeep' /\ NameMarked'
  BY <1>1, <1>3 DEF TitlesInv, UsersKeep, NameMarked
<1>6. Swept'
  BY <1>1, <1>3 DEF TitlesInv, Swept, Undisturbed
<1> QED
  BY <1>4, <1>5, <1>6 DEF TitlesInv
-----------------------------------------------------------------------------
\* The sweep's list is true when it is read.
LEMMA ReadKeeps ==
  ASSUME TitlesInv, SweepRead
  PROVE  TitlesInv'
<1>1. /\ sweep' = "under way" /\ meanwhile' = 0 /\ TitleTypes /\ UsersKeep /\ NameMarked
      /\ UNCHANGED <<shape, win, term, recorded, held, ended, given, slipped>>
  BY DEF SweepRead, TitlesInv, Listless
<1>2. /\ DOMAIN list' = Places
      /\ \A v \in Places :
             /\ In(v) = {} => list'[v] = <<>>
             /\ In(v) # {} => list'[v] = <<[was |-> win[v], agents |-> Agents(v)]>>
  BY DEF SweepRead, Agents
<1>3. \A v \in Places :
        /\ Listed(v)' <=> In(v) # {}
        /\ In(v) # {} => Entry(v)' = [was |-> win[v], agents |-> Agents(v)]
  BY <1>2 DEF Listed, Entry
<1>31. \A v \in Places : In(v) # {} => Entry(v)'.was = win[v] /\ Entry(v)'.agents = Agents(v)
  BY <1>3
<1>4. \A v \in Places : win[v] \in Windows /\ Agents(v) \in SUBSET [id : Terms, session : Titled \cup {Untitled}]
  <2>1. \A v \in Places : win[v] \in Windows
    BY <1>1 DEF TitleTypes, TitlesTypeOK, Windows
  <2>2. \A p \in Terms : [id |-> p, session |-> term[p].session] \in [id : Terms, session : Titled \cup {Untitled}]
    BY <1>1 DEF TitleTypes, TitlesTypeOK
  <2>3. \A v : Agents(v) \subseteq [id : Terms, session : Titled \cup {Untitled}]
    BY <2>2 DEF Agents, In
  <2> QED BY <2>1, <2>3
<1>5. ListTypes'
  <2>1. \A v \in Places : Listed(v)' => Entry(v)' \in Entries
    BY <1>3, <1>4 DEF Entries
  <2> QED BY <1>2, <2>1 DEF ListTypes
<1>6. \A v \in Places : In(v)' = In(v) /\ Agents(v)' = Agents(v)
  BY <1>1 DEF In, Agents
<1>7. UsersKeep' /\ NameMarked'
  <2>1. UsersKeep'
    <3> SUFFICES ASSUME NEW v \in given
                 PROVE  /\ win[v].name = User /\ ~win[v].auto
                        /\ Listed(v)' => Entry(v)'.was.name = User /\ ~Entry(v)'.was.auto
      BY <1>1 DEF UsersKeep
    <3>1. v \in Places /\ win[v].name = User /\ ~win[v].auto
      BY <1>1 DEF UsersKeep, TitleTypes
    <3> QED BY <3>1, <1>3, <1>31
  <2>2. NameMarked'
    BY <1>1 DEF NameMarked
  <2> QED BY <2>1, <2>2
<1>8. Swept'
  <2> SUFFICES ASSUME NEW v \in Places, In(v)' # {}
               PROVE  Listed(v)' /\ Entry(v)'.was = win'[v] /\ Entry(v)'.agents = Agents(v)'
    BY DEF Swept
  <2> QED BY <1>1, <1>3, <1>31, <1>6
<1>9. TitlesTypeOK'
  BY <1>1 DEF TitleTypes, TitlesTypeOK
<1> QED
  BY <1>1, <1>5, <1>7, <1>8, <1>9 DEF TitlesInv, TitleTypes, Listless

\* The sweep comes to one window, and goes on or is over.
LEMMA WindowStep ==
  ASSUME TitlesInv, NEW w \in Places, Window(w)
  PROVE  /\ sweep = "under way" /\ Listed(w) /\ ~Listed(w)'
         /\ \A v \in Places : v # w => Listed(v)' = Listed(v) /\ Entry(v)' = Entry(v)
         /\ ListTypes' /\ Listless' /\ (Undisturbed' => Undisturbed)
         /\ sweep' \in {"none", "under way", "done"} /\ meanwhile' \in Nat
         /\ UNCHANGED <<shape, recorded, held, ended>>
<1>1. sweep = "under way" /\ Listed(w) /\ list' = [list EXCEPT ![w] = <<>>] /\ DOMAIN list = Places
  BY DEF Window, Listed, TitlesInv, TitleTypes, ListTypes
<1>2. ~Listed(w)' /\ \A v \in Places : v # w => Listed(v)' = Listed(v) /\ Entry(v)' = Entry(v)
  BY <1>1 DEF Listed, Entry
<1>3. ListTypes'
  BY <1>1, <1>2 DEF ListTypes, TitlesInv, TitleTypes
<1>4. CASE \A v \in Places : ~Listed(v)'
  <2>1. sweep' \in {"none", "done"} /\ meanwhile' = 0 /\ (sweep' = "done" => meanwhile = 0)
    BY <1>4 DEF Window, Listed
  <2> QED BY <1>1, <1>2, <1>3, <1>4, <2>1 DEF Window, Listless, Undisturbed
<1>5. CASE ~\A v \in Places : ~Listed(v)'
  <2>1. sweep' = sweep /\ meanwhile' = meanwhile
    BY <1>5 DEF Window, Listed
  <2> QED BY <1>1, <1>2, <1>3, <2>1 DEF Window, Listless, Undisturbed, TitlesInv, TitleTypes
<1> QED BY <1>4, <1>5

\* A step of the sweep that leaves its window settled.
LEMMA SweepKeeps ==
  ASSUME TitlesInv, NEW w \in Places, Window(w),
         given' = given, Slips \/ UNCHANGED <<win, slipped>>,
         \A v \in Places : v # w => win'[v] = win[v],
         \A p \in Terms : /\ term'[p].window = term[p].window
                          /\ term'[p].runs = term[p].runs /\ term'[p].session = term[p].session,
         TitlesTypeOK', UsersKeep', NameMarked',
         Undisturbed /\ In(w) # {} => w \in slipped' \/ Settled(w)'
  PROVE  TitlesInv'
<1>1. \A v : In(v)' = In(v) /\ Agents(v)' = Agents(v) /\ {p \in In(v) : term[p].runs}' = {p \in In(v) : term[p].runs}
  BY DEF In, Agents
<1>2. \A v \in Places : v # w => Settled(v)' = Settled(v)
  <2> SUFFICES ASSUME NEW v \in Places, v # w PROVE Settled(v)' = Settled(v)
    OBVIOUS
  <2>1. /\ {p \in In(v) : term[p].runs}' = {p \in In(v) : term[p].runs}
        /\ \A p \in In(v) : term'[p].session = term[p].session
        /\ win'[v] = win[v] /\ recorded' = recorded
    BY <1>1, WindowStep DEF In
  <2> QED BY <2>1 DEF Settled
<1>3. Swept'
  <2> SUFFICES ASSUME Undisturbed', NEW v \in Places, In(v)' # {}
               PROVE  IF Listed(v)' THEN Entry(v)'.was = win'[v] /\ Entry(v)'.agents = Agents(v)' ELSE v \in slipped' \/ Settled(v)'
    BY DEF Swept
  <2>1. Undisturbed /\ In(v) # {}
    BY <1>1, WindowStep
  <2>2. CASE v = w
    BY <2>1, <2>2, WindowStep
  <2>3. CASE v # w
    <3>1. v \in slipped' <=> v \in slipped
      BY <2>3, Unslipped DEF TitlesInv
    <3> QED BY <1>1, <1>2, <2>1, <2>3, <3>1, WindowStep DEF TitlesInv, Swept
  <2> QED BY <2>2, <2>3
<1> QED
  BY <1>3, WindowStep DEF TitlesInv, TitleTypes

\* The listed agents of a window are those that run in it.
LEMMA AgentsThere ==
  ASSUME NEW w
  PROVE  /\ Agents(w) = {} <=> {p \in In(w) : term[p].runs} = {}
         /\ \A p \in {q \in In(w) : term[q].runs} : [id |-> p, session |-> term[p].session] \in Agents(w)
  BY DEF Agents

\* A title and no agent: the mark goes, and the name if it was the agent's.
LEMMA UntitleKeeps ==
  ASSUME TitlesInv, NEW w \in Places, SweepUntitle(w)
  PROVE  TitlesInv'
<1> DEFINE was == Entry(w).was
<1>1. /\ Window(w) /\ Listed(w) /\ was.title # Untitled /\ Entry(w).agents = {}
      /\ TitleTypes /\ UsersKeep /\ NameMarked /\ UNCHANGED <<term, given>> /\ Slips
  BY WindowStep DEF SweepUntitle, Entry, TitlesInv
<1>2. was.title \in Titled /\ win \in [Places -> Windows]
  BY <1>1 DEF TitleTypes, ListTypes, Entries, Windows, TitlesTypeOK
<1>3. \/ win' = win /\ In(w) = {}
      \/ win' = [win EXCEPT ![w] = Fresh] /\ was.title = was.name
      \/ /\ win' = [win EXCEPT ![w] = [win[w] EXCEPT !.title = Untitled]] /\ was.title # was.name
  <2>1. CASE In(w) = {}
    BY <2>1 DEF SweepUntitle
  <2>2. CASE In(w) # {} /\ was.title = was.name
    BY <2>2 DEF SweepUntitle, Entry
  <2>3. CASE In(w) # {} /\ was.title # was.name
    <3>1. win' = [win EXCEPT ![w] = [win[w] EXCEPT !.title = Untitled]]
      BY <2>3 DEF SweepUntitle, Entry
    <3> QED BY <2>3, <3>1 DEF SweepUntitle
  <2> QED BY <2>1, <2>2, <2>3
<1>4. \A v \in Places : v # w => win'[v] = win[v]
  BY <1>2, <1>3
<1>5. win' \in [Places -> Windows]
  <2>1. Fresh \in Windows
    BY DEF Fresh, Windows
  <2>2. [win[w] EXCEPT !.title = Untitled] \in Windows
    BY <1>2 DEF Windows
  <2> QED BY <1>2, <1>3, <2>1, <2>2
<1>6. \/ win'[w] = win[w] /\ In(w) = {}
      \/ win'[w] = Fresh /\ was.title = was.name
      \/ /\ win'[w].name = win[w].name /\ win'[w].auto = win[w].auto /\ win'[w].title = Untitled
         /\ was.title # was.name
  BY <1>2, <1>3 DEF Windows
<1>7. UsersKeep'
  <2>1. w \in given => was.title # was.name
    BY <1>1, <1>2, TitlesAssumption DEF UsersKeep
  <2>2. \A v \in Places : Listed(v)' => Listed(v) /\ Entry(v)' = Entry(v)
    BY <1>1, WindowStep
  <2>3. given \subseteq Places /\ given' = given
    BY <1>1 DEF TitleTypes
  <2> QED BY <1>1, <1>4, <1>6, <2>1, <2>2, <2>3 DEF UsersKeep
<1>8. NameMarked'
  BY <1>1, <1>4, <1>6, MarksKept DEF Fresh
<1>11. Undisturbed /\ In(w) # {} => w \in slipped' \/ Settled(w)'
  <2> SUFFICES ASSUME Undisturbed, In(w) # {}, w \notin slipped' PROVE Settled(w)'
    OBVIOUS
  <2>1. Agents(w) = {}
    BY <1>1 DEF TitlesInv, Swept
  <2>2. {p \in In(w) : term[p].runs}' = {}
    BY <1>1, <2>1, AgentsThere DEF In
  <2>3. win'[w].title = Untitled
    BY <1>6 DEF Fresh
  <2>4. win'[w].name # Untitled
    BY <1>5, TitlesAssumption DEF Windows
  <2>5. win'[w].auto \/ w \in given
    BY <1>1, <1>8, <2>3, <2>4 DEF NameMarked
  <2> QED BY <1>1, <2>2, <2>3, <2>5 DEF Settled
<1>12. TitlesTypeOK'
  BY <1>1, <1>5, WindowStep DEF TitleTypes, TitlesTypeOK, Windows
<1> QED
  BY <1>1, <1>4, <1>7, <1>8, <1>11, <1>12, SweepKeeps

\* A window the sweep leaves alone is settled already.
LEMMA NothingKeeps ==
  ASSUME TitlesInv, NEW w \in Places, SweepNothing(w)
  PROVE  TitlesInv'
<1>1. /\ Window(w) /\ Listed(w) /\ TitleTypes /\ UsersKeep /\ NameMarked /\ UNCHANGED <<win, term, given, slipped>>
      /\ Entry(w).agents = {} => Entry(w).was.title = Untitled
      /\ Entry(w).was.auto => {a \in Entry(w).agents : a.session \in recorded} = {}
  BY WindowStep DEF SweepNothing, Entry, TitlesInv
<1>2. \A v \in Places : Listed(v)' => Listed(v) /\ Entry(v)' = Entry(v)
  BY <1>1, WindowStep
<1>3. UsersKeep' /\ NameMarked'
  BY <1>1, <1>2 DEF UsersKeep, NameMarked, TitleTypes
<1>4. Undisturbed /\ In(w) # {} => w \in slipped' \/ Settled(w)'
  <2> SUFFICES ASSUME Undisturbed, In(w) # {}, w \notin slipped PROVE Settled(w)'
    BY <1>1
  <2>1. Entry(w).was = win[w] /\ Entry(w).agents = Agents(w)
    BY <1>1 DEF TitlesInv, Swept
  <2>2. win[w].title = Untitled => win[w].auto \/ w \in given
    <3>1. win[w].name # Untitled
      BY <1>1, TitlesAssumption DEF TitleTypes, TitlesTypeOK
    <3> QED BY <1>1, <3>1 DEF NameMarked
  <2>3. {p \in In(w) : term[p].runs} = {} => win[w].title = Untitled
    BY <1>1, <2>1, AgentsThere
  <2>4. win[w].auto => \A p \in {q \in In(w) : term[q].runs} : term[p].session \notin recorded
    <3> SUFFICES ASSUME win[w].auto, NEW p \in {q \in In(w) : term[q].runs}, term[p].session \in recorded
                 PROVE  FALSE
      OBVIOUS
    <3>1. [id |-> p, session |-> term[p].session] \in Agents(w)
      BY AgentsThere
    <3> QED BY <1>1, <2>1, <3>1
  <2>5. Settled(w)
    BY <2>2, <2>3, <2>4 DEF Settled
  <2>6. In(w)' = In(w) /\ recorded' = recorded
    BY <1>1, WindowStep DEF In
  <2> QED BY <1>1, <2>5, <2>6 DEF Settled
<1>5. TitlesTypeOK'
  BY <1>1, WindowStep DEF TitleTypes, TitlesTypeOK
<1> QED
  BY <1>1, <1>3, <1>4, <1>5, SweepKeeps

\* An agent under tmux's name gets its title.
LEMMA TitleKeeps ==
  ASSUME TitlesInv, NEW w \in Places, SweepTitle(w)
  PROVE  TitlesInv'
<1>1. /\ Window(w) /\ Listed(w) /\ TitleTypes /\ UsersKeep /\ NameMarked /\ UNCHANGED given /\ Slips
      /\ Entry(w).was.auto
  BY WindowStep DEF SweepTitle, Entry, TitlesInv
<1>2. PICK a \in Entry(w).agents :
        /\ a.session \in recorded
        /\ IF In(w) = {} THEN UNCHANGED <<win, term>>
           ELSE /\ ApplyTitle(w, a.session)
                /\ term' = IF Opened(a.id) THEN [term EXCEPT ![a.id].named = a.session] ELSE term
  BY DEF SweepTitle, Entry
<1>3. a.session \in Titled /\ a.id \in Terms /\ w \notin given
  BY <1>1, <1>2 DEF TitleTypes, TitlesTypeOK, ListTypes, Entries, UsersKeep
<1>4. \A v \in Places : Listed(v)' => Listed(v) /\ Entry(v)' = Entry(v)
  BY <1>1, WindowStep
<1>5. /\ win' \in [Places -> Windows] /\ UsersKeep' /\ NameMarked'
      /\ \A v \in Places : v # w => win'[v] = win[v]
      /\ In(w) # {} => ~win'[w].auto
  <2>1. CASE In(w) = {}
    <3>1. win' = win /\ given' = given
      BY <1>1, <1>2, <2>1
    <3>2. win \in [Places -> Windows] /\ given \subseteq Places
      BY <1>1 DEF TitleTypes, TitlesTypeOK, Windows
    <3>3. UsersKeep'
      BY <1>1, <1>4, <3>1, <3>2 DEF UsersKeep
    <3>4. NameMarked'
      BY <1>1, <3>1, MarksKept
    <3> QED BY <2>1, <3>1, <3>2, <3>3, <3>4
  <2>2. CASE In(w) # {}
    <3>1. ApplyTitle(w, a.session)
      BY <1>2, <2>2
    <3>2. win' \in [Places -> Windows] /\ UsersKeep' /\ NameMarked'
      BY <1>1, <1>3, <1>4, <3>1, ApplyTypes, ApplyKeeps
    <3>3. win \in [Places -> Windows]
      BY <1>1 DEF TitleTypes, TitlesTypeOK, Windows
    <3> QED BY <3>1, <3>2, <3>3 DEF ApplyTitle
  <2> QED BY <2>1, <2>2
<1>6. /\ term' \in [Terms -> Panes]
      /\ \A p \in Terms : /\ term'[p].window = term[p].window
                          /\ term'[p].runs = term[p].runs /\ term'[p].session = term[p].session
  <2>1. term \in [Terms -> Panes]
    BY <1>1 DEF TitleTypes, TitlesTypeOK, Panes
  <2>2. term' = term \/ term' = [term EXCEPT ![a.id] = [term[a.id] EXCEPT !.named = a.session]]
    BY <1>2
  <2> QED BY <1>3, <2>1, <2>2 DEF Panes
<1>7. Undisturbed /\ In(w) # {} => w \in slipped' \/ Settled(w)'
  <2> SUFFICES ASSUME Undisturbed, In(w) # {} PROVE Settled(w)'
    OBVIOUS
  <2>1. Agents(w) # {}
    BY <1>1, <1>2 DEF TitlesInv, Swept
  <2>2. {p \in In(w) : term[p].runs} # {}
    BY <2>1, AgentsThere
  <2>3. {p \in In(w) : term[p].runs}' # {}
    BY <1>6, <2>2 DEF In
  <2> QED BY <1>5, <2>3 DEF Settled
<1>8. TitlesTypeOK'
  BY <1>1, <1>5, <1>6, WindowStep DEF TitleTypes, TitlesTypeOK, Windows, Panes
<1> QED
  BY <1>1, <1>5, <1>6, <1>7, <1>8, SweepKeeps
-----------------------------------------------------------------------------
\* Every variable keeps its type, between and in the middle of sweeps.
THEOREM TitlesInvariant == TitlesSpec => []TitlesInv
<1>1. TitlesInit => TitlesInv
  <2> SUFFICES ASSUME TitlesInit PROVE TitlesInv
    OBVIOUS
  <2>1. \A w \in Places : ~Listed(w)
    BY DEF TitlesInit, Listed
  <2>2. TitleTypes
    BY <2>1 DEF TitlesInit, TitleTypes, TitlesTypeOK, ListTypes, Fresh, NewAt
  <2>3. \A w \in Places : win[w].auto
    BY DEF TitlesInit, Fresh
  <2> QED
    BY <2>1, <2>2, <2>3 DEF TitlesInit, TitlesInv, Listless, UsersKeep, NameMarked, Swept, Undisturbed
<1>2. TitlesInv /\ [TitlesNext]_tvars => TitlesInv'
  <2> SUFFICES ASSUME TitlesInv, [TitlesNext]_tvars PROVE TitlesInv'
    OBVIOUS
  <2>1. CASE OtherWindows
    <3>1. CASE \E p \in Terms : \E s \in shape.sessions, resumed \in BOOLEAN : Start(p, s, resumed)
      BY <3>1, StartKeeps
    <3>2. CASE (\E p \in Terms : TurnEnd(p) \/ Quit(p) \/ Read(p)) \/ Leave
      BY <3>2, TurnEndKeeps, QuitKeeps, HeldKeeps
    <3>3. CASE \E p \in Terms : SweepGone(p) \/ (\E exited \in BOOLEAN : End(p, exited))
                                \/ (\E how \in {"exited", "killed"} : FinishTitle(p, how))
      BY <3>3, ReleasesKeep
    <3>4. CASE \E p \in Terms : \E w \in shape.places \cup {Untitled} : PaneTo(p, w)
      BY <3>4, PaneToKeeps
    <3>5. CASE \E w \in Places : UserNames(w) \/ UserGivesBack(w)
      BY <3>5, UsersActKeeps
    <3> QED BY <2>1, <3>1, <3>2, <3>3, <3>4, <3>5 DEF OtherWindows
  <2>2. CASE SweepRead
    BY <2>2, ReadKeeps
  <2>3. CASE \E w \in Places : Sweeping(w)
    BY <2>3, UntitleKeeps, TitleKeeps, NothingKeeps DEF Sweeping
  <2>4. CASE UNCHANGED tvars
    <3>1. \A w : /\ Listed(w)' = Listed(w) /\ Entry(w)' = Entry(w) /\ In(w)' = In(w)
                 /\ Agents(w)' = Agents(w) /\ Settled(w)' = Settled(w)
      BY <2>4 DEF tvars, Listed, Entry, In, Agents, Settled
    <3> QED
      BY <2>4, <3>1 DEF tvars, TitlesInv, TitleTypes, TitlesTypeOK, ListTypes, Listless, UsersKeep, NameMarked, Swept, Undisturbed
  <2> QED
    BY <2>1, <2>2, <2>3, <2>4, NextSplits
<1> QED
  BY <1>1, <1>2, PTL DEF TitlesSpec

\* A window keeps the name its user gave it, but for the resume of a session in it
\* and for a hook that had read the window before, and after a sweep that nothing
\* disturbed no window has the title of an agent that is not there, nor an agent
\* with a recorded title tmux's name.
THEOREM NamesStay == TitlesSpec => []NamesBelong
<1>1. TitlesInv => NamesBelong
  <2> SUFFICES ASSUME TitlesInv, NEW w \in Places
               PROVE  /\ w \in given => win[w].name = User /\ ~win[w].auto
                      /\ sweep = "done" /\ w \notin slipped /\ In(w) # {} => Settled(w)
    BY DEF NamesBelong, Settled
  <2>1. sweep = "done" => ~Listed(w) /\ Undisturbed
    BY DEF TitlesInv, Listless, Undisturbed
  <2> QED
    BY <2>1 DEF TitlesInv, UsersKeep, Swept
<1> QED
  BY <1>1, TitlesInvariant, PTL
-----------------------------------------------------------------------------
(* The composition. *)

\* Each part of the composition behaves as its own specification says.
THEOREM PartsAreTheirOwn == MSpec => Spec /\ TitlesSpec
<1>1. MInit => Init /\ TitlesInit
  BY DEF MInit
<1>2. [MNext]_<<part, vars, tvars>> => [Next]_vars /\ [TitlesNext]_tvars
  BY DEF MNext
<1> QED
  BY <1>1, <1>2, PTL DEF MSpec, Spec, TitlesSpec

\* Every variable of the two models keeps its type.
THEOREM AgentTypes == MSpec => []TypesOK
<1>1. TitlesInv => TitlesTypeOK
  BY DEF TitlesInv, TitleTypes
<1>2. TypeOK /\ TitlesTypeOK => TypesOK
  BY DEF TypesOK
<1> QED
  BY <1>1, <1>2, PartsAreTheirOwn, TypeCorrect, TitlesInvariant, PTL
=============================================================================
