-------------------------- MODULE Attention_proofs --------------------------
(***************************************************************************)
(* Proofs about Attention, for any panes, windows, programs and modes.     *)
(***************************************************************************)
EXTENDS Attention, TLAPS

Busy(r) == cmd[r].at # "none"

\* What the fields of a command say at each of its calls.
Formed(c) ==
    /\ c.at \in OnAPane => c.pane \in Panes
    /\ c.sweeping => c.at \in {"drop", "list", "roll"}
    /\ c.at = "drop" => c.sweeping
    /\ c.at \notin {"none", "sweep", "drop", "settle"} /\ ~c.sweeping => c.counts
    /\ c.want.failed => c.want.state = "done"

CommandInv == \A r \in Runners : (Busy(r) => r \in mode.runners) /\ Formed(cmd[r])

\* What a list-panes returned.
GotInv ==
    /\ DOMAIN got = Runners
    /\ \A r \in Runners :
           /\ DOMAIN got[r] \subseteq Panes
           /\ \A p \in DOMAIN got[r] :
                  got[r][p] \in [state : States, failed : BOOLEAN, win : Windows \cup {Nobody}]

\* One command at a time: the pane that is marked again still has the state
\* the command found there.
MarkInv ==
    OneAtATime =>
        \A r \in Runners : At(r, "mark") => flag[Pane(r)].state = cmd[r].want.state

Base == TypeOK /\ CommandInv /\ GotInv /\ MarkInv
-----------------------------------------------------------------------------
(* Types. *)

LEMMA ModeFacts ==
  ASSUME mode \in Modes
  PROVE  /\ mode.runners \subseteq Runners /\ mode.windows \subseteq Windows
         /\ \A f \in mode.wanted :
                f \in [state : States \ {"idle"}, failed : BOOLEAN, owned : BOOLEAN]
                /\ (f.failed => f.state = "done")
  BY AttentionAssumption DEF Runners

LEMMA IdleType == Idle \in Commands /\ NoFlag \in Flags /\ Nothing \in [state : States, failed : BOOLEAN]
  BY DEF Idle, Commands, NoFlag, Nothing, Flags, States, Calls

LEMMA SweptType ==
  ASSUME NEW c \in Commands
  PROVE  /\ Swept(c) \in Commands
         /\ Swept(c).at \in {"drop", "count", "settle"}
         /\ Swept(c).at = "drop" <=> Swept(c).sweeping
         /\ Swept(c).at = "count" => c.counts
         /\ Swept(c).sweeping <=> c.left # {}
         /\ Swept(c).left = c.left /\ Swept(c).dropped = c.dropped /\ Swept(c).counts = c.counts
         /\ Swept(c).want = c.want /\ Swept(c).look = c.look
  BY DEF Swept, Commands, Calls

LEMMA RestType ==
  ASSUME NEW c \in Commands
  PROVE  /\ Rest(c) \in Commands
         /\ Rest(c) = Idle \/ (c.look \in Panes /\ Rest(c) = On("look", c.look))
  BY IdleType DEF Rest, On, Idle, Commands, Calls

\* The highest rank is some state's, and only a done window is failed.
LEMMA RollUpType ==
  ASSUME NEW list, \A p \in DOMAIN list : list[p].state \in States
  PROVE  RollUp(list) \in [state : States, failed : BOOLEAN]
         /\ (RollUp(list).failed => RollUp(list).state = "done")
<1> DEFINE states == {list[p].state : p \in DOMAIN list}
           Best(s) == \A t \in states : Rank(s) <= Rank(t)
           best == IF states = {} THEN "idle" ELSE CHOOSE s \in states : Best(s)
           failed == best = "done" /\ \E p \in DOMAIN list : list[p].state = "done" /\ list[p].failed
<1>1. states \subseteq States
  OBVIOUS
<1>2. /\ Rank("needs-you") = 0 /\ Rank("done") = 1 /\ Rank("working") = 2 /\ Rank("idle") = 9
  BY DEF Rank
<1>3. ASSUME states # {} PROVE \E s \in states : Best(s)
  <2>1. CASE "needs-you" \in states
    BY <1>1, <1>2, <2>1 DEF States
  <2>2. CASE "needs-you" \notin states /\ "done" \in states
    BY <1>1, <1>2, <2>2 DEF States
  <2>3. CASE "needs-you" \notin states /\ "done" \notin states /\ "working" \in states
    BY <1>1, <1>2, <2>3 DEF States
  <2>4. CASE "needs-you" \notin states /\ "done" \notin states /\ "working" \notin states
    BY <1>1, <1>2, <1>3, <2>4 DEF States
  <2> QED
    BY <2>1, <2>2, <2>3, <2>4
<1>4. best \in States
  <2>1. CASE states = {}
    BY <2>1 DEF States
  <2>2. CASE states # {}
    <3> HIDE DEF states, Best
    <3>1. (CHOOSE s \in states : Best(s)) \in states
      BY <1>3, <2>2
    <3> QED
      BY <1>1, <2>2, <3>1
  <2> QED
    BY <2>1, <2>2
<1>5. RollUp(list) = [state |-> best, failed |-> failed]
  BY DEF RollUp
<1>6. failed \in BOOLEAN /\ (failed => best = "done")
  OBVIOUS
<1> HIDE DEF best, failed
<1> QED
  BY <1>4, <1>5, <1>6

\* What starts a command, and the command it starts.
Starts(r) ==
    \/ Hook(r) \/ Status(r) \/ List(r) \/ Redraw(r)
    \/ \E p \in Panes : Clear(r, p) \/ Seen(r, p) \/ \E f \in mode.wanted : Set(r, p, f)

Started(c) ==
    /\ c.at \in {"read", "again", "sweep", "relist"} /\ Formed(c)
    /\ c.at \in OnAPane => Alive(c.pane)
    /\ ~c.sweeping /\ ~c.dropped /\ c.left = {}

LEMMA StartsRun ==
  ASSUME TypeOK, NEW r \in Runners, Starts(r)
  PROVE  \E c \in Commands :
             /\ Run(r, c) /\ Started(c)
             /\ due' = due \/ (due > 0 /\ due' = due - 1 /\ c = StatusCalls)
<1>c. StatusCalls \in Commands /\ ListCalls \in Commands
  BY IdleType DEF StatusCalls, ListCalls, Commands, Calls
<1>1. CASE Hook(r) \/ Status(r)
  BY <1>1, <1>c DEF Hook, Status, Started, Formed, StatusCalls, Idle, NoFlag, OnAPane
<1>2. CASE List(r)
  BY <1>2, <1>c DEF List, Started, Formed, ListCalls, Idle, NoFlag, OnAPane
<1>3. CASE Redraw(r)
  <2>1. [StatusCalls EXCEPT !.at = "relist"] \in Commands
    BY <1>c DEF Commands, Calls
  <2> QED
    BY <1>3, <2>1 DEF Redraw, Started, Formed, StatusCalls, Idle, NoFlag, OnAPane
<1>4. ASSUME NEW p \in Panes, Clear(r, p) 
      PROVE  Run(r, On("again", p)) /\ Started(On("again", p)) /\ due' = due /\ On("again", p) \in Commands
  BY <1>4, IdleType DEF Clear, On, Started, Formed, Commands, Calls, Idle, NoFlag, OnAPane
<1>5. ASSUME NEW p \in Panes, Seen(r, p)
      PROVE  /\ Run(r, [ListCalls EXCEPT !.look = p]) /\ Started([ListCalls EXCEPT !.look = p])
             /\ due' = due /\ [ListCalls EXCEPT !.look = p] \in Commands
  <2> DEFINE c == [ListCalls EXCEPT !.look = p]
  <2>1. c \in Commands
    BY <1>c DEF Commands
  <2>2. c.at = "sweep" /\ ~c.sweeping /\ ~c.dropped /\ c.left = {} /\ c.want = NoFlag
    BY <1>c DEF ListCalls, Idle, Commands
  <2>3. Started(c)
    BY <2>2 DEF Started, Formed, NoFlag, OnAPane
  <2> QED
    BY <1>5, <2>1, <2>3 DEF Seen
<1>6. ASSUME NEW p \in Panes, NEW f \in mode.wanted, Set(r, p, f)
      PROVE  \E c \in Commands : Run(r, c) /\ Started(c) /\ due' = due
  <2> DEFINE owner == IF f.owned THEN command[p] ELSE Nobody
             want == [state |-> f.state, failed |-> f.failed, owner |-> owner]
             c == [On("read", p) EXCEPT !.want = want]
  <2>1. want \in Flags /\ (want.failed => want.state = "done")
    BY <1>6, ModeFacts DEF TypeOK, Set, Flags, States
  <2>2. c \in Commands /\ c = [Idle EXCEPT !.at = "read", !.pane = p, !.counts = TRUE, !.want = want]
    BY <2>1, IdleType DEF On, Commands, Calls
  <2>3. Started(c)
    BY <1>6, <2>1, <2>2 DEF Started, Formed, Set, Idle, OnAPane
  <2> QED
    BY <1>6, <2>2, <2>3 DEF Set
<1> QED
  BY <1>1, <1>2, <1>3, <1>4, <1>5, <1>6 DEF Starts

\* The calls of a command.
Acts(r) ==
    \/ Missing(r) \/ Read(r) \/ Write(r) \/ Mark(r) \/ Again(r) \/ Unflag(r) \/ Drop(r)
    \/ Look(r) \/ Sweep(r) \/ Settle(r) \/ ListWindow(r) \/ ListAll(r) \/ Roll(r) \/ Render(r)
    \/ DrawWindows(r)

LEMMA NextCases ==
  ASSUME Next
  PROVE  \/ \E p \in Panes : Close(p)
         \/ \E p \in Panes, w \in mode.windows : Move(p, w)
         \/ \E p \in Panes, c \in Programs \cup {Shell} : Switch(p, c)
         \/ \E r \in Runners : Starts(r) \/ Acts(r)
  BY DEF Next, Starts, Acts

\* A call makes the command another one of the right form.
LEMMA ActsBecome ==
  ASSUME TypeOK, CommandInv, NEW r \in Runners, Acts(r)
  PROVE  Busy(r) /\ \E d \in Commands : cmd' = [cmd EXCEPT ![r] = d] /\ Formed(d)
<1> DEFINE c == cmd[r]
<1>c. c \in Commands /\ Formed(c)
  BY DEF TypeOK, CommandInv
<1>i. Idle \in Commands /\ Formed(Idle) /\ StatusCalls \in Commands /\ Formed(StatusCalls)
  BY IdleType DEF Formed, Idle, NoFlag, OnAPane, StatusCalls, Commands, Calls
<1> DEFINE To(at) == [c EXCEPT !.at = at]
           Fine(d) == d \in Commands /\ Formed(d)
<1>g. ASSUME NEW at \in Calls \ {"drop"}, at \in OnAPane => c.at \in OnAPane,
             c.sweeping => at \in {"list", "roll"}, ~c.sweeping => c.counts
      PROVE  Fine(To(at))
  BY <1>c, <1>g DEF Commands, Formed
<1>s. ASSUME NEW d \in Commands, d.want = c.want
      PROVE  Swept(d) \in Commands /\ Formed(Swept(d))
  BY <1>c, <1>s, SweptType DEF Formed, OnAPane
<1>r. Rest(c) \in Commands /\ Formed(Rest(c))
  BY <1>c, <1>i, RestType DEF Formed, On, Idle, NoFlag
<1>1. CASE Missing(r)
  BY <1>1, <1>c, <1>i, <1>s DEF Missing, Becomes, Busy
<1>2. CASE Read(r) \/ Again(r) \/ Look(r)
  <2>1. Fine(To("mark")) /\ Fine(To("write")) /\ Fine(To("unflag")) /\ Fine(To("again"))
    BY <1>2, <1>c, <1>g DEF Read, Again, Look, At, Doing, Formed, OnAPane, Calls
  <2> QED
    BY <1>2, <1>i, <2>1 DEF Read, Again, Look, Go, Stop, Becomes, At, Doing, Busy
<1>3. CASE Write(r) \/ Mark(r) \/ Unflag(r)
  <2>1. Fine(To("list"))
    BY <1>3, <1>c, <1>g DEF Write, Mark, Unflag, At, Doing, Formed, OnAPane, Calls
  <2> QED
    BY <1>3, <2>1 DEF Write, Mark, Unflag, Go, Becomes, At, Doing, Busy
<1>4. CASE Drop(r)
  <2>1. PICK p \in c.left : 
           LET others == c.left \ {p}
           IN  \/ cmd' = [cmd EXCEPT ![r] = [c EXCEPT !.at = "list", !.pane = p, !.left = others, !.dropped = TRUE]]
               \/ cmd' = [cmd EXCEPT ![r] = Swept([c EXCEPT !.left = others])]
    BY <1>4 DEF Drop, Becomes
  <2> DEFINE others == c.left \ {p}
             d == [c EXCEPT !.at = "list", !.pane = p, !.left = others, !.dropped = TRUE]
             e == [c EXCEPT !.left = others]
  <2>2. d \in Commands /\ Formed(d)
    BY <1>4, <1>c DEF Drop, Doing, Commands, Calls, Formed
  <2>3. e \in Commands /\ e.want = c.want
    BY <1>c DEF Commands
  <2>4. Swept(e) \in Commands /\ Formed(Swept(e))
    BY <1>s, <2>3
  <2>5. Busy(r)
    BY <1>4 DEF Drop, Doing, Busy
  <2> QED
    BY <2>1, <2>2, <2>4, <2>5
<1>5. CASE Sweep(r)
  <2> DEFINE d == [c EXCEPT !.left = {p \in Panes : Stale(p)}, !.dropped = FALSE]
  <2>1. d \in Commands /\ d.want = c.want
    BY <1>c DEF Commands
  <2>2. Swept(d) \in Commands /\ Formed(Swept(d))
    BY <1>s, <2>1
  <2> QED
    BY <1>5, <2>2 DEF Sweep, Becomes, Doing, Busy
<1>6. CASE Settle(r)
  <2> DEFINE d == [StatusCalls EXCEPT !.look = c.look]
  <2>1. d \in Commands /\ d.at = "sweep" /\ ~d.sweeping /\ d.want = NoFlag
    BY <1>c, <1>i DEF Commands, StatusCalls, Idle
  <2>2. Formed(d)
    BY <2>1 DEF Formed, NoFlag, OnAPane
  <2> QED
    BY <1>6, <1>r, <2>1, <2>2 DEF Settle, Becomes, Doing, Busy
<1>7. CASE ListWindow(r)
  <2>1. Fine(To("roll"))
    BY <1>7, <1>c, <1>g DEF ListWindow, At, Doing, Formed, OnAPane, Calls
  <2> QED
    BY <1>7, <2>1 DEF ListWindow, ListAs, Go, Becomes, At, Doing, Busy
<1>10. CASE ListAll(r)
  <2>1. Fine(To("render")) /\ Fine(To("redraw"))
    BY <1>10, <1>c, <1>g DEF ListAll, Doing, Formed, OnAPane, Calls
  <2> QED
    BY <1>10, <2>1 DEF ListAll, ListAs, Go, Becomes, Doing, Busy
<1>8. CASE Roll(r)
  BY <1>8, <1>c, <1>i, <1>s DEF Roll, Becomes, At, Doing, Busy
<1>9. CASE Render(r) \/ DrawWindows(r)
  BY <1>9, <1>r, <1>i DEF Render, DrawWindows, Becomes, Doing, Busy
<1> QED
  BY <1>1, <1>2, <1>3, <1>4, <1>5, <1>6, <1>7, <1>8, <1>9, <1>10 DEF Acts

LEMMA CommandNext ==
  ASSUME TypeOK, CommandInv, [Next]_vars
  PROVE  CommandInv' /\ cmd' \in [Runners -> Commands]
<1>1. ASSUME NEW r \in Runners, NEW d \in Commands, cmd' = [cmd EXCEPT ![r] = d], mode' = mode,
             Formed(d), d.at # "none" => r \in mode.runners
      PROVE  CommandInv' /\ cmd' \in [Runners -> Commands]
  BY <1>1 DEF TypeOK, CommandInv, Busy, Formed
<1>2. ASSUME cmd' = cmd, mode' = mode PROVE CommandInv' /\ cmd' \in [Runners -> Commands]
  BY <1>2 DEF TypeOK, CommandInv, Busy, Formed
<1>3. ASSUME NEW r \in Runners, Starts(r) PROVE CommandInv' /\ cmd' \in [Runners -> Commands]
  <2>1. PICK c \in Commands : Run(r, c) /\ Started(c)
    BY <1>3, StartsRun
  <2> QED
    BY <1>1, <2>1 DEF Run, Started
<1>4. ASSUME NEW r \in Runners, Acts(r) PROVE CommandInv' /\ cmd' \in [Runners -> Commands]
  <2>1. PICK d \in Commands : cmd' = [cmd EXCEPT ![r] = d] /\ Formed(d)
    BY <1>4, ActsBecome
  <2>2. r \in mode.runners
    BY <1>4, ActsBecome DEF CommandInv
  <2>3. mode' = mode
    BY <1>4 DEF Acts, Missing, Read, Write, Mark, Again, Unflag, Drop, Look, Sweep, Settle, ListWindow,
                ListAll, ListAs, Roll, Render, DrawWindows, Unset, server
  <2> QED
    BY <1>1, <2>1, <2>2, <2>3
<1>5. CASE (\E p \in Panes : Close(p)) \/ (\E p \in Panes, w \in mode.windows : Move(p, w))
             \/ (\E p \in Panes, c \in Programs \cup {Shell} : Switch(p, c)) \/ UNCHANGED vars
  BY <1>2, <1>5 DEF Close, Move, Switch, vars, local, server
<1> QED
  BY <1>3, <1>4, <1>5, NextCases

\* What a command changes beside its own call.
LEMMA FlagsChange ==
  ASSUME TypeOK, CommandInv, NEW r \in Runners, Acts(r)
  PROVE  \/ flag' = flag /\ UNCHANGED stale
         \/ \E p \in Panes :
                /\ Alive(p) /\ Forget(p)
                /\ \/ Write(r) /\ p = Pane(r) /\ flag' = [flag EXCEPT ![p] = cmd[r].want]
                   \/ (Unflag(r) \/ Drop(r)) /\ flag' = [flag EXCEPT ![p] = NoFlag]
         \/ Mark(r) /\ flag' = [flag EXCEPT ![Pane(r)].failed = cmd[r].want.failed] /\ UNCHANGED stale
<1>1. CASE Write(r)
  BY <1>1 DEF Write, At, Doing, TypeOK, OnAPane
<1>2. CASE Unflag(r)
  BY <1>2 DEF Unflag, Unset, At, Doing, TypeOK, OnAPane
<1>3. CASE Drop(r)
  <2>1. cmd[r].left \subseteq Panes
    BY DEF TypeOK, Commands
  <2> QED
    BY <1>3, <2>1 DEF Drop, Unset, server, history
<1>4. CASE Mark(r)
  BY <1>4 DEF Mark, history
<1>5. CASE ~(Write(r) \/ Unflag(r) \/ Drop(r) \/ Mark(r))
  BY <1>5 DEF Acts, Missing, Read, Again, Look, Sweep, Settle, ListWindow,
              ListAll, ListAs, Roll, Render, DrawWindows, server, history
<1> QED
  BY <1>1, <1>2, <1>3, <1>4, <1>5

LEMMA GotNext ==
  ASSUME TypeOK, CommandInv, GotInv, [Next]_vars
  PROVE  GotInv'
<1> DEFINE Info == [state : States, failed : BOOLEAN, win : Windows \cup {Nobody}]
           Good(list) == DOMAIN list \subseteq Panes /\ \A p \in DOMAIN list : list[p] \in Info
<1>1. ASSUME NEW r \in Runners, NEW list, Good(list), got' = [got EXCEPT ![r] = list]
      PROVE  GotInv'
  BY <1>1 DEF GotInv
<1>2. ASSUME got' = got PROVE GotInv'
  BY <1>2 DEF GotInv
<1>3. ASSUME NEW ps \in SUBSET Panes PROVE Good(Listed(ps))
  BY DEF Listed, TypeOK, Flags
<1>4. Good(<<>>)
  OBVIOUS
<1> HIDE DEF Good
<1>5. ASSUME NEW r \in Runners, ListWindow(r) \/ ListAll(r) PROVE GotInv'
  BY <1>1, <1>3, <1>5 DEF ListWindow, ListAll, ListAs, In, Open
<1>6. ASSUME NEW r \in Runners, Roll(r) \/ Render(r) \/ DrawWindows(r) PROVE GotInv'
  BY <1>1, <1>4, <1>6 DEF Roll, Render, DrawWindows
<1>7. ASSUME NEW r \in Runners, Acts(r), ~(ListWindow(r) \/ ListAll(r) \/ Roll(r) \/ Render(r) \/ DrawWindows(r))
      PROVE  got' = got
  BY <1>7 DEF Acts, Missing, Read, Write, Mark, Again, Unflag, Drop, Look, Sweep, Settle, Unset
<1>8. ASSUME NEW r \in Runners, Starts(r) PROVE got' = got
  BY <1>8, StartsRun DEF Run
<1>9. CASE (\E p \in Panes : Close(p)) \/ (\E p \in Panes, w \in mode.windows : Move(p, w))
             \/ (\E p \in Panes, c \in Programs \cup {Shell} : Switch(p, c)) \/ UNCHANGED vars
  BY <1>2, <1>9 DEF Close, Move, Switch, vars, local, server
<1> QED
  BY <1>2, <1>5, <1>6, <1>7, <1>8, <1>9, NextCases

LEMMA ModeFixed == [Next]_vars => mode' = mode
<1>1. ASSUME NEW r \in Runners, Starts(r) PROVE mode' = mode
  BY <1>1 DEF Starts, Hook, Status, List, Redraw, Clear, Seen, Set, Run
<1>2. ASSUME NEW r \in Runners, Acts(r) PROVE mode' = mode
  BY <1>2 DEF Acts, Missing, Read, Write, Mark, Again, Unflag, Drop, Look, Sweep, Settle, ListWindow,
              ListAll, ListAs, Roll, Render, DrawWindows, Unset, server
<1> QED
  BY <1>1, <1>2, NextCases DEF Close, Move, Switch, vars, server

\* Which calls lead to a list, a roll-up, a rendering or a mark.
LEMMA ActsTo ==
  ASSUME TypeOK, CommandInv, NEW r \in Runners, Acts(r)
  PROVE  /\ cmd'[r].at = "render" => ListAll(r)
         /\ cmd'[r].at \in {"list", "roll"} =>
                /\ Write(r) \/ Mark(r) \/ Unflag(r) \/ ListWindow(r) \/ (Drop(r) /\ cmd'[r].sweeping)
                /\ Alive(cmd'[r].pane) /\ (~Drop(r) => cmd'[r].pane = Pane(r))
         /\ cmd'[r].at = "redraw" => ListAll(r)
         /\ cmd'[r].at = "mark" => Read(r)
<1>t. cmd[r] \in Commands /\ cmd \in [Runners -> Commands] /\ Formed(cmd[r])
  BY DEF TypeOK, CommandInv
<1> DEFINE Targets == {"render", "list", "roll", "redraw", "mark"}
<1>1. CASE Missing(r) \/ Roll(r) \/ Render(r) \/ DrawWindows(r)
  <2>1. /\ Rest(cmd[r]).at \notin Targets /\ Swept(cmd[r]).at \notin Targets
        /\ StatusCalls.at \notin Targets /\ Idle.at \notin Targets
    BY <1>t, SweptType DEF Rest, On, Idle, StatusCalls
  <2>2. cmd'[r] \in {Rest(cmd[r]), Swept(cmd[r]), StatusCalls, Idle}
    BY <1>1, <1>t DEF Missing, Roll, Render, DrawWindows, Becomes
  <2> QED
    BY <2>1, <2>2
<1>2. CASE Sweep(r)
  <2> DEFINE c == [cmd[r] EXCEPT !.left = {p \in Panes : Stale(p)}, !.dropped = FALSE]
  <2>1. c \in Commands /\ cmd'[r] = Swept(c)
    BY <1>2, <1>t DEF Commands, Sweep, Becomes
  <2> QED
    BY <2>1, SweptType
<1>3. CASE Drop(r)
  <2>1. PICK p \in cmd[r].left :
           \/ /\ cmd'[r] = [cmd[r] EXCEPT !.at = "list", !.pane = p, !.left = cmd[r].left \ {p}, !.dropped = TRUE]
              /\ Alive(p)
           \/ cmd'[r] = Swept([cmd[r] EXCEPT !.left = cmd[r].left \ {p}])
    BY <1>3, <1>t DEF Drop, Becomes
  <2> DEFINE c == [cmd[r] EXCEPT !.left = cmd[r].left \ {p}]
  <2>2. c \in Commands
    BY <1>t DEF Commands
  <2>3. CASE cmd'[r] = Swept(c)
    BY <2>2, <2>3, SweptType
  <2>4. cmd[r].sweeping
    BY <1>3, <1>t DEF Drop, Doing, Formed
  <2> QED
    BY <1>3, <1>t, <2>1, <2>3, <2>4 DEF Commands
<1>4. CASE Settle(r)
  BY <1>4, <1>t DEF Settle, Becomes, Rest, On, StatusCalls, Idle
<1>5. CASE Read(r) \/ Again(r) \/ Look(r)
  BY <1>5, <1>t DEF Read, Again, Look, Go, Stop, Becomes, Idle, Commands
<1>6. CASE Write(r) \/ Mark(r) \/ Unflag(r)
  BY <1>6, <1>t DEF Write, Mark, Unflag, Go, Becomes, Commands, At, Pane
<1>7. CASE ListWindow(r)
  BY <1>7, <1>t DEF ListWindow, ListAs, Go, Becomes, Commands, At, Pane
<1>8. CASE ListAll(r)
  BY <1>8, <1>t DEF ListAll, ListAs, Go, Becomes, Commands
<1> QED
  BY <1>1, <1>2, <1>3, <1>4, <1>5, <1>6, <1>7, <1>8 DEF Acts

LEMMA MarkNext ==
  ASSUME Base, [Next]_vars
  PROVE  MarkInv' /\ (OneAtATime => \A p \in Panes : flag'[p].failed => flag'[p].state = "done")
<1> SUFFICES ASSUME OneAtATime
             PROVE  /\ \A q \in Runners : At(q, "mark")' => flag'[Pane(q)'].state = cmd'[q].want.state
                    /\ \A p \in Panes : flag'[p].failed => flag'[p].state = "done"
  BY ModeFixed DEF MarkInv, OneAtATime
<1> USE DEF Base
<1>t. /\ flag \in [Panes -> Flags] /\ cmd \in [Runners -> Commands] /\ win \in [Panes -> Windows \cup {Nobody}]
      /\ \A p \in Panes : flag[p].failed => flag[p].state = "done"
      /\ \A q \in Runners : At(q, "mark") => flag[Pane(q)].state = cmd[q].want.state
      /\ \A q \in Runners : cmd[q].at = "mark" => Pane(q) \in Panes
  BY DEF TypeOK, MarkInv, OnAPane
\* The others' commands are at rest.
<1>o. ASSUME NEW r \in Runners, Busy(r) PROVE \A q \in Runners \ {r} : cmd[q].at = "none"
  BY <1>o DEF CommandInv, OneAtATime, Busy
<1>1. ASSUME NEW r \in Runners, NEW d, cmd' = [cmd EXCEPT ![r] = d], d.at # "mark", Busy(r), UNCHANGED win,
             \A p \in Panes : flag'[p].failed => flag'[p].state = "done"
      PROVE  \A q \in Runners : ~At(q, "mark")'
  BY <1>1, <1>o, <1>t DEF At, Doing
<1>2. CASE UNCHANGED <<flag, cmd>> /\ \A p \in Panes : Alive(p)' => Alive(p)
  BY <1>2, <1>t DEF At, Doing, Pane
<1>3. ASSUME NEW p \in Panes, Close(p)
      PROVE  /\ \A q \in Runners : At(q, "mark")' => flag'[Pane(q)'].state = cmd'[q].want.state
             /\ \A x \in Panes : flag'[x].failed => flag'[x].state = "done"
  BY <1>3, <1>t DEF Close, At, Doing, Pane, Alive, NoFlag, local
<1>4. ASSUME NEW r \in Runners, Starts(r)
      PROVE  /\ \A q \in Runners : At(q, "mark")' => flag'[Pane(q)'].state = cmd'[q].want.state
             /\ \A x \in Panes : flag'[x].failed => flag'[x].state = "done"
  <2>1. PICK c \in Commands : Run(r, c) /\ Started(c)
    BY <1>4, StartsRun
  <2> QED
    BY <1>t, <2>1 DEF Run, Started, At, Doing, Pane, Alive
<1>5. ASSUME NEW r \in Runners, Acts(r)
      PROVE  /\ \A q \in Runners : At(q, "mark")' => flag'[Pane(q)'].state = cmd'[q].want.state
             /\ \A x \in Panes : flag'[x].failed => flag'[x].state = "done"
  <2>1. PICK d \in Commands : cmd' = [cmd EXCEPT ![r] = d] /\ Formed(d)
    BY <1>5, ActsBecome
  <2>b. Busy(r)
    BY <1>5, ActsBecome
  <2>2. \A x \in Panes : flag'[x].failed => flag'[x].state = "done"
    <3>1. CASE flag' = flag
      BY <1>t, <3>1
    <3>2. CASE Mark(r)
      <4>1. Pane(r) \in Panes /\ flag[Pane(r)].state = cmd[r].want.state
        BY <1>t, <3>2 DEF Mark, At, Doing
      <4>2. cmd[r].want.failed => cmd[r].want.state = "done"
        BY DEF CommandInv, Formed
      <4> QED
        BY <1>t, <3>2, <4>1, <4>2 DEF Mark, Flags
    <3>3. ASSUME NEW p \in Panes, flag' = [flag EXCEPT ![p] = cmd[r].want] \/ flag' = [flag EXCEPT ![p] = NoFlag]
          PROVE  \A x \in Panes : flag'[x].failed => flag'[x].state = "done"
      <4>1. cmd[r].want.failed => cmd[r].want.state = "done"
        BY DEF CommandInv, Formed
      <4> QED
        BY <1>t, <3>3, <4>1 DEF NoFlag
    <3> QED
      BY <1>5, <3>1, <3>2, <3>3, FlagsChange
  <2>3. CASE Read(r) /\ d.at = "mark"
    <3>1. \/ cmd'[r] = Idle
          \/ cmd'[r] = [cmd[r] EXCEPT !.at = "write"]
          \/ cmd'[r] = [cmd[r] EXCEPT !.at = "mark"] /\ flag[Pane(r)].state = cmd[r].want.state
      BY <1>t, <2>3 DEF Read, Stop, Go, Becomes
    <3>2. cmd'[r] = [cmd[r] EXCEPT !.at = "mark"] /\ flag[Pane(r)].state = cmd[r].want.state
      BY <1>t, <2>1, <2>3, <3>1 DEF Idle, Commands
    <3>3. flag' = flag
      BY <2>3 DEF Read, server
    <3> QED
      BY <1>t, <1>o, <2>1, <2>2, <2>b, <3>2, <3>3 DEF At, Doing, Pane, Commands
  <2>4. CASE ~Read(r)
    <3>1. d.at # "mark"
      BY <1>5, <1>t, <2>1, <2>4, ActsTo
    <3>2. UNCHANGED win
      BY <1>5 DEF Acts, Missing, Read, Write, Mark, Again, Unflag, Drop, Look, Sweep, Settle, ListWindow,
                  ListAll, ListAs, Roll, Render, DrawWindows, Unset, server
    <3> QED
      BY <1>1, <2>1, <2>2, <2>b, <3>1, <3>2
  <2>5. CASE Read(r) /\ d.at # "mark"
    <3>1. UNCHANGED win
      BY <2>5 DEF Read, server
    <3> QED
      BY <1>1, <2>1, <2>2, <2>5, <2>b, <3>1
  <2> QED
    BY <2>3, <2>4, <2>5
<1>6. ASSUME NEW p, NEW w, Move(p, w) \/ Switch(p, w)
      PROVE  UNCHANGED <<flag, cmd>> /\ \A x \in Panes : Alive(x)' => Alive(x)
  BY <1>6, <1>t DEF Move, Switch, Alive, local
<1>7. CASE UNCHANGED vars
  BY <1>2, <1>7 DEF vars, server, local, Alive
<1>8. CASE \E p \in Panes, w \in mode.windows : Move(p, w)
  BY <1>2, <1>6, <1>8
<1>9. CASE \E p \in Panes, c \in Programs \cup {Shell} : Switch(p, c)
  BY <1>2, <1>6, <1>9
<1>10. CASE \E p \in Panes : Close(p)
  BY <1>3, <1>10
<1>11. CASE \E r \in Runners : Starts(r) \/ Acts(r)
  BY <1>4, <1>5, <1>11
<1> QED
  BY <1>7, <1>8, <1>9, <1>10, <1>11, NextCases

LEMMA TypeNext ==
  ASSUME Base, [Next]_vars
  PROVE  TypeOK'
<1> USE DEF Base
<1> DEFINE Server ==
        /\ mode \in Modes /\ win \in [Panes -> Windows \cup {Nobody}] /\ command \in [Panes -> Programs \cup {Shell}]
        /\ flag \in [Panes -> Flags] /\ due \in Nat
        /\ rolled \in [Windows -> [state : States, failed : BOOLEAN]]
        /\ \A w \in Windows : rolled[w].failed => rolled[w].state = "done"
        /\ stale \in [Runners -> SUBSET Panes] /\ named \in [Panes -> Programs \cup {Nobody}]
<1>t. Server
  BY DEF TypeOK
<1>m. mode.windows \subseteq Windows
  BY <1>t, ModeFacts
<1>1. ASSUME NEW p \in Panes, Close(p) PROVE Server'
  BY <1>1, <1>t, IdleType DEF Close, Leave, Forget, Nothing, States, Alive
<1>2. ASSUME NEW p \in Panes, NEW w \in mode.windows, Move(p, w) PROVE Server'
  BY <1>2, <1>t, <1>m DEF Move, Leave, Nothing, States, Alive, history
<1>3. ASSUME NEW p \in Panes, NEW c \in Programs \cup {Shell}, Switch(p, c) PROVE Server'
  BY <1>3, <1>t DEF Switch
<1>4. ASSUME NEW r \in Runners, Starts(r) PROVE Server'
  <2>1. PICK c \in Commands : Run(r, c) /\ (due' = due \/ (due > 0 /\ due' = due - 1))
    BY <1>4, StartsRun
  <2> QED
    BY <1>t, <2>1 DEF Run
<1>5. ASSUME NEW r \in Runners, Acts(r) PROVE Server'
  <2>1. flag' \in [Panes -> Flags] /\ stale' \in [Runners -> SUBSET Panes]
    <3>1. cmd[r].want \in Flags
      BY DEF TypeOK, Commands
    <3>2. CASE Mark(r)
      <4>1. Pane(r) \in Panes /\ cmd[r].want.failed \in BOOLEAN
        BY <3>1, <3>2 DEF Mark, At, Doing, TypeOK, OnAPane, Flags
      <4> QED
        BY <1>t, <3>2, <4>1 DEF Mark, Flags, history
    <3>3. CASE ~Mark(r)
      BY <1>5, <1>t, <3>1, <3>3, FlagsChange, IdleType DEF Forget
    <3> QED
      BY <3>2, <3>3
  <2>2. named' \in [Panes -> Programs \cup {Nobody}]
    <3>1. cmd[r].want.owner \in Programs \cup {Nobody}
      BY DEF TypeOK, Commands, Flags
    <3> QED
      BY <1>5, <1>t, <3>1 DEF Acts, Missing, Read, Write, Mark, Again, Unflag, Drop, Look, Sweep, Settle, ListWindow,
         ListAll, ListAs, Roll, Render, DrawWindows, Unset, history
  <2>3. mode' = mode /\ win' = win /\ command' = command /\ due' = due
    BY <1>5 DEF Acts, Missing, Read, Write, Mark, Again, Unflag, Drop, Look, Sweep, Settle, ListWindow,
                ListAll, ListAs, Roll, Render, DrawWindows, Unset, server
  <2> DEFINE Good(rs) == /\ rs \in [Windows -> [state : States, failed : BOOLEAN]]
                         /\ \A w \in Windows : rs[w].failed => rs[w].state = "done"
  <2>4. Good(rolled')
    <3>1. CASE Roll(r)
      <4>1. \A p \in DOMAIN got[r] : got[r][p].state \in States
        BY DEF GotInv
      <4> QED
        BY <1>t, <3>1, <4>1, RollUpType DEF Roll, At, Alive
    <3>2. CASE DrawWindows(r)
      <4> DEFINE part(w) == [p \in {q \in DOMAIN got[r] : got[r][q].win = w} |-> got[r][p]]
      <4>1. ASSUME NEW w PROVE RollUp(part(w)) \in [state : States, failed : BOOLEAN]
                               /\ (RollUp(part(w)).failed => RollUp(part(w)).state = "done")
        <5>1. \A p \in DOMAIN part(w) : part(w)[p].state \in States
          BY DEF GotInv
        <5> HIDE DEF part
        <5> QED
          BY <5>1, RollUpType
      <4>2. PICK drawn : rolled' = [w \in Windows |-> IF w \in drawn /\ In(w) # {} THEN RollUp(part(w)) ELSE rolled[w]]
        BY <3>2 DEF DrawWindows
      <4> HIDE DEF part
      <4> QED
        BY <1>t, <4>1, <4>2
    <3>3. CASE ~Roll(r) /\ ~DrawWindows(r)
      <4>1. rolled' = rolled
        BY <1>5, <3>3 DEF Acts, Missing, Read, Write, Mark, Again, Unflag, Drop, Look, Sweep, Settle, ListWindow,
                ListAll, ListAs, Render, Unset, server
      <4> QED
        BY <1>t, <4>1
    <3> QED
      BY <3>1, <3>2, <3>3
  <2> HIDE DEF Good
  <2> QED
    BY <1>t, <2>1, <2>2, <2>3, <2>4 DEF Good
<1>6. ASSUME UNCHANGED vars PROVE Server'
  <2>1. /\ mode' = mode /\ win' = win /\ command' = command /\ flag' = flag /\ due' = due
        /\ rolled' = rolled /\ stale' = stale /\ named' = named
    BY <1>6 DEF vars, server, history
  <2> QED
    BY <1>t, <2>1
<1>7. Server'
  <2> HIDE DEF Server
  <2>1. CASE \E p \in Panes, c \in Programs \cup {Shell} : Switch(p, c)
    BY <1>3, <2>1
  <2>2. CASE \E p \in Panes, w \in mode.windows : Move(p, w)
    BY <1>2, <2>2
  <2>3. CASE \E p \in Panes : Close(p)
    BY <1>1, <2>3
  <2>4. CASE \E r \in Runners : Starts(r) \/ Acts(r)
    BY <1>4, <1>5, <2>4
  <2> QED
    BY <1>6, <2>1, <2>2, <2>3, <2>4, NextCases
<1>8. CommandInv' /\ cmd' \in [Runners -> Commands]
  BY CommandNext
<1>9. (OneAtATime => \A p \in Panes : flag[p].failed => flag[p].state = "done")'
  BY MarkNext, ModeFixed DEF OneAtATime
<1> QED
  BY <1>7, <1>8, <1>9 DEF TypeOK, CommandInv, Formed, Pane

LEMMA BaseInit == Init => Base
<1> SUFFICES ASSUME Init PROVE Base
  OBVIOUS
<1>m. mode.windows \subseteq Windows
  BY ModeFacts DEF Init
<1>1. TypeOK
  BY <1>m, IdleType DEF Init, TypeOK, Nothing, NoFlag, Idle, OnAPane
<1>2. CommandInv
  BY DEF Init, CommandInv, Formed, Busy, Idle, NoFlag, OnAPane
<1>3. GotInv
  BY DEF Init, GotInv
<1>4. MarkInv
  BY DEF Init, MarkInv, At, Doing, Idle
<1> QED
  BY <1>1, <1>2, <1>3, <1>4 DEF Base

LEMMA BaseNext == Base /\ [Next]_vars => Base'
  BY TypeNext, CommandNext, GotNext, MarkNext DEF Base

LEMMA BaseInvariant == Spec => []Base
  BY BaseInit, BaseNext, PTL DEF Spec

\* Panes, flags, roll-ups and commands keep their types in every mode, however
\* many commands run at once; a flag that is not done is marked failed only
\* when several do.
THEOREM TypeCorrect == Spec => []TypeOK
<1>1. Base => TypeOK
  BY DEF Base
<1> QED
  BY <1>1, BaseInvariant, PTL
-----------------------------------------------------------------------------
(* Sweeps. *)

\* The panes a command found stale are so still, save for those dropped or
\* set anew, and its sweep knows of them.
SweptInv ==
    \A r \in Runners :
        /\ \A p \in stale[r] : Stale(p)
        /\ cmd[r].sweeping => stale[r] \subseteq cmd[r].left
        /\ cmd[r].at \in {"count", "settle", "render"} => stale[r] = {}

LEMMA SweptNext ==
  ASSUME Base, SweptInv, [Next]_vars
  PROVE  SweptInv'
<1> USE DEF Base
<1>t. /\ flag \in [Panes -> Flags] /\ cmd \in [Runners -> Commands] /\ win \in [Panes -> Windows \cup {Nobody}]
      /\ stale \in [Runners -> SUBSET Panes] /\ command \in [Panes -> Programs \cup {Shell}]
      /\ \A r \in Runners : cmd[r].at \in OnAPane => Pane(r) \in Panes
  BY DEF TypeOK
<1> DEFINE Ok(q) == /\ \A p \in stale[q] : Stale(p)
                    /\ cmd[q].sweeping => stale[q] \subseteq cmd[q].left
                    /\ cmd[q].at \in {"count", "settle", "render"} => stale[q] = {}
<1>1. ASSUME NEW p \in Panes, Close(p) PROVE SweptInv'
  BY <1>1, <1>t DEF Close, Forget, SweptInv, Stale, Alive, local
<1>2. ASSUME NEW p \in Panes, NEW w \in mode.windows, Move(p, w) PROVE SweptInv'
  <2>1. w # Nobody
    BY ModeFacts, AttentionAssumption DEF TypeOK
  <2> QED
    BY <1>2, <1>t, <2>1 DEF Move, SweptInv, Stale, Alive, local, history
<1>3. ASSUME NEW p \in Panes, NEW c \in Programs \cup {Shell}, Switch(p, c) PROVE SweptInv'
  BY <1>3, <1>t DEF Switch, SweptInv, Stale, Alive, local
<1>4. ASSUME NEW r \in Runners, Starts(r) PROVE SweptInv'
  <2>1. PICK c \in Commands : Run(r, c) /\ Started(c)
    BY <1>4, StartsRun
  <2> QED
    BY <1>t, <2>1 DEF Run, Started, SweptInv, Stale, Alive
<1>5. ASSUME NEW r \in Runners, Acts(r) PROVE SweptInv'
  <2>1. PICK d \in Commands : cmd' = [cmd EXCEPT ![r] = d] /\ Formed(d)
    BY <1>5, ActsBecome
  <2>c. cmd[r] \in Commands /\ cmd'[r] = d
    BY <1>t, <2>1
  <2>2. \A q \in Runners : stale'[q] \subseteq stale[q] /\ \A p \in stale'[q] : Stale(p)'
    <3>1. win' = win /\ command' = command
      BY <1>5 DEF Acts, Missing, Read, Write, Mark, Again, Unflag, Drop, Look, Sweep, Settle, ListWindow,
                  ListAll, ListAs, Roll, Render, DrawWindows, Unset, server
    <3>2. CASE flag' = flag /\ stale' = stale
      BY <3>1, <3>2 DEF SweptInv, Stale, Alive
    <3>3. CASE Mark(r)
      <4>1. \A p \in Panes : flag'[p].state = flag[p].state /\ flag'[p].owner = flag[p].owner
        BY <1>t, <3>3 DEF Mark, Flags
      <4> QED
        BY <1>t, <3>1, <3>3, <4>1 DEF Mark, history, SweptInv, Stale, Alive
    <3>4. ASSUME NEW p \in Panes, Forget(p), \E f : flag' = [flag EXCEPT ![p] = f]
          PROVE  \A q \in Runners : stale'[q] \subseteq stale[q] /\ \A x \in stale'[q] : Stale(x)'
      BY <1>t, <3>1, <3>4 DEF Forget, SweptInv, Stale, Alive
    <3> QED
      BY <1>5, <3>2, <3>3, <3>4, FlagsChange
  <2> DEFINE Fine(c) == /\ c.sweeping => stale'[r] \subseteq c.left
                        /\ c.at \in {"count", "settle", "render"} => stale'[r] = {}
  <2>s. ASSUME NEW c \in Commands, stale'[r] \subseteq c.left PROVE Fine(Swept(c))
    BY <2>s, SweptType
  <2>r. Fine(Idle) /\ Fine(Rest(cmd[r])) /\ Fine(StatusCalls)
    BY DEF Idle, Rest, On, StatusCalls
  <2>3. Fine(d)
    <3>1. CASE Missing(r) \/ Roll(r)
      <4>1. cmd[r].sweeping => stale'[r] \subseteq cmd[r].left
        BY <2>2 DEF SweptInv
      <4>2. cmd'[r] = IF cmd[r].sweeping THEN Swept(cmd[r]) ELSE IF Missing(r) THEN Idle ELSE StatusCalls
        BY <1>t, <3>1 DEF Missing, Roll, Becomes, At, Alive
      <4>3. cmd[r].sweeping => Fine(Swept(cmd[r]))
        BY <2>c, <2>s, <4>1
      <4> HIDE DEF Fine
      <4> QED
        BY <2>c, <2>r, <4>2, <4>3
    <3>2. CASE Sweep(r)
      <4> DEFINE c == [cmd[r] EXCEPT !.left = {p \in Panes : Stale(p)}, !.dropped = FALSE]
      <4>1. c \in Commands /\ stale'[r] \subseteq c.left
        BY <1>t, <2>2, <2>c, <3>2 DEF Commands, Sweep, SweptInv, history
      <4> QED
        BY <1>t, <2>c, <2>s, <3>2, <4>1 DEF Sweep, Becomes
    <3>3. CASE Drop(r)
      <4>1. PICK p \in cmd[r].left :
               \/ /\ Unset(p)
                  /\ cmd'[r] = [cmd[r] EXCEPT !.at = "list", !.pane = p, !.left = cmd[r].left \ {p}, !.dropped = TRUE]
               \/ ~Alive(p) /\ cmd'[r] = Swept([cmd[r] EXCEPT !.left = cmd[r].left \ {p}]) /\ UNCHANGED stale
        BY <1>t, <3>3 DEF Drop, Becomes, history
      <4> DEFINE c == [cmd[r] EXCEPT !.left = cmd[r].left \ {p}]
      <4>2. stale[r] \subseteq cmd[r].left
        BY <3>3 DEF SweptInv, Drop, Doing, CommandInv, Formed
      <4>3. stale'[r] \subseteq cmd[r].left \ {p}
        BY <4>1, <4>2 DEF Unset, Forget, SweptInv, Stale
      <4>4. c \in Commands /\ c.left = cmd[r].left \ {p}
        BY <2>c DEF Commands
      <4>5. Fine(Swept(c))
        BY <2>s, <4>3, <4>4
      <4> DEFINE e == [cmd[r] EXCEPT !.at = "list", !.pane = p, !.left = cmd[r].left \ {p}, !.dropped = TRUE]
      <4>6. e.at = "list" /\ e.left = cmd[r].left \ {p}
        BY <2>c DEF Commands
      <4>7. d = e \/ d = Swept(c)
        BY <2>c, <4>1
      <4> HIDE DEF e, c
      <4> QED
        BY <4>3, <4>5, <4>6, <4>7
    <3>4. CASE Settle(r)
      BY <1>t, <2>c, <2>r, <3>4 DEF Settle, Becomes, StatusCalls, Idle
    <3>5. CASE Render(r) \/ DrawWindows(r)
      <4>1. cmd'[r] = Rest(cmd[r]) \/ cmd'[r] = StatusCalls
        BY <1>t, <3>5 DEF Render, DrawWindows, Becomes
      <4> QED
        BY <2>c, <2>r, <4>1
    <3>6. CASE Read(r) \/ Again(r) \/ Look(r)
      <4>1. cmd'[r] = Idle \/ \E at \in Calls \ {"count", "settle", "render"} : cmd'[r] = [cmd[r] EXCEPT !.at = at]
        BY <1>t, <3>6 DEF Read, Again, Look, Go, Stop, Becomes, Calls
      <4>2. ~cmd[r].sweeping
        BY <3>6 DEF Read, Again, Look, CommandInv, Formed, At, Doing
      <4> QED
        BY <2>c, <2>r, <4>1, <4>2 DEF Commands
    <3>7. CASE Write(r) \/ Mark(r) \/ Unflag(r)
      BY <1>t, <2>c, <3>7 DEF Write, Mark, Unflag, Go, Becomes, Commands, CommandInv, Formed, At, Doing
    <3>8. CASE ListWindow(r)
      BY <1>t, <2>2, <2>c, <3>8 DEF ListWindow, ListAs, Go, Becomes, Commands, SweptInv
    <3>9. CASE ListAll(r)
      BY <1>t, <2>2, <2>c, <3>9 DEF ListAll, ListAs, Go, Becomes, Commands, SweptInv, CommandInv, Formed, Doing
    <3> QED
      BY <1>5, <3>1, <3>2, <3>3, <3>4, <3>5, <3>6, <3>7, <3>8, <3>9 DEF Acts
  <2>5. \A q \in Runners \ {r} : cmd'[q] = cmd[q]
    BY <2>1, <1>t
  <2> QED
    BY <2>2, <2>3, <2>5, <2>c DEF SweptInv
<1>6. CASE UNCHANGED vars
  BY <1>6 DEF vars, server, local, history, SweptInv, Stale, Alive
<1>7. CASE \E p \in Panes, c \in Programs \cup {Shell} : Switch(p, c)
  BY <1>3, <1>7
<1> QED
  BY <1>1, <1>2, <1>4, <1>5, <1>6, <1>7, NextCases

\* A flag whose program was gone when a command started is dropped before
\* that command counts, however many commands run at once.
THEOREM StaleAreDropped == Spec => []SweptBeforeCounted
<1>1. Init => SweptInv
  BY DEF Init, SweptInv, Idle
<1>2. SweptInv => SweptBeforeCounted
  BY DEF SweptInv, SweptBeforeCounted, Doing
<1> QED
  BY <1>1, <1>2, SweptNext, BaseInvariant, PTL DEF Spec
-----------------------------------------------------------------------------
(* The counts of the status bar. *)

\* The command is on its way to render the counts.
WillCount(r) ==
    \/ cmd[r].counts /\ cmd[r].at \in {"sweep", "drop", "list", "roll", "count", "render"}
    \/ cmd[r].dropped /\ cmd[r].at \in {"drop", "list", "roll", "settle"}

\* What a command has listed is what the panes hold.
ListedNow(r) ==
    /\ DOMAIN got[r] = Open
    /\ \A p \in Open : got[r][p].state = flag[p].state /\ got[r][p].failed = flag[p].failed

\* Between commands the status bar is right; while one runs it is, or the
\* command comes to render what the panes hold then.
CountedInv ==
    OneAtATime /\ due = 0 =>
        /\ status = Counts(Listed(Open)) \/ \E r \in Runners : WillCount(r)
        /\ \A r \in Runners : cmd[r].at = "render" => ListedNow(r)
        /\ \A r \in Runners : cmd[r].at \in {"list", "roll"} /\ ~cmd[r].sweeping => Alive(Pane(r))

LEMMA SameCounts ==
  ASSUME NEW f, NEW g, DOMAIN f = DOMAIN g,
         \A p \in DOMAIN f : f[p].state = g[p].state /\ f[p].failed = g[p].failed
  PROVE  Counts(f) = Counts(g)
<1>1. ASSUME NEW s, NEW b
      PROVE  {p \in DOMAIN f : f[p].state = s /\ (s = "done" => f[p].failed = b)}
                 = {p \in DOMAIN g : g[p].state = s /\ (s = "done" => g[p].failed = b)}
  OBVIOUS
<1> QED
  BY <1>1 DEF Counts

LEMMA NoCounts ==
  ASSUME NEW f, \A p \in DOMAIN f : f[p].state = "idle"
  PROVE  Counts(f) = [needs |-> Cardinality({}), working |-> Cardinality({}),
                      failed |-> Cardinality({}), done |-> Cardinality({})]
<1>1. ASSUME NEW s, NEW b, s # "idle"
      PROVE  {p \in DOMAIN f : f[p].state = s /\ (s = "done" => f[p].failed = b)} = {}
  BY <1>1
<1> QED
  BY <1>1 DEF Counts

LEMMA ListedFacts ==
  ASSUME NEW ps
  PROVE  /\ DOMAIN Listed(ps) = ps
         /\ \A p \in ps : /\ Listed(ps)[p].state = flag[p].state /\ Listed(ps)[p].failed = flag[p].failed
                          /\ Listed(ps)[p].win = win[p]
  BY DEF Listed

\* A change of a flag is a promise to count.
LEMMA ChangeCounts ==
  ASSUME Base, NEW r \in Runners, Acts(r),
         Write(r) \/ Mark(r) \/ Unflag(r) \/ flag' # flag
  PROVE  WillCount(r)'
<1> USE DEF Base
<1>t. cmd[r] \in Commands /\ cmd \in [Runners -> Commands] /\ Formed(cmd[r])
  BY DEF TypeOK, CommandInv
<1>1. CASE Write(r) \/ Mark(r) \/ Unflag(r)
  BY <1>1, <1>t DEF Write, Mark, Unflag, Go, Becomes, At, Doing, Formed, Commands, WillCount
<1>2. CASE Drop(r) /\ flag' # flag
  BY <1>2, <1>t DEF Drop, Becomes, Commands, WillCount, server
<1> QED
  BY <1>1, <1>2, FlagsChange

\* A command keeps its promise to count until it renders them.
LEMMA CountsOn ==
  ASSUME Base, NEW r \in Runners, Acts(r),
         ~Render(r),
         cmd[r].at \in {"list", "roll"} /\ ~cmd[r].sweeping => Alive(Pane(r)),
         WillCount(r)
  PROVE  WillCount(r)'
<1> USE DEF Base
<1>t. cmd[r] \in Commands /\ cmd \in [Runners -> Commands] /\ Formed(cmd[r])
  BY DEF TypeOK, CommandInv
<1>1. CASE cmd[r].sweeping /\ cmd'[r] = Swept(cmd[r])
  <2>1. /\ Swept(cmd[r]).at = IF cmd[r].left # {} THEN "drop" ELSE IF cmd[r].counts THEN "count" ELSE "settle"
        /\ Swept(cmd[r]).counts = cmd[r].counts /\ Swept(cmd[r]).dropped = cmd[r].dropped
    BY <1>t DEF Swept, Commands
  <2>2. cmd[r].counts \/ cmd[r].dropped
    BY DEF WillCount
  <2> QED
    BY <1>1, <2>1, <2>2 DEF WillCount
<1>2. CASE cmd'[r] = StatusCalls
  BY <1>2 DEF WillCount, StatusCalls, Idle
<1>3. CASE Missing(r) \/ Roll(r)
  BY <1>1, <1>2, <1>3, <1>t DEF Missing, Roll, Becomes, WillCount
<1>4. CASE Read(r) \/ Again(r) \/ Look(r)
  BY <1>4, <1>t DEF Read, Again, Look, At, Doing, WillCount
<1>5. CASE Sweep(r)
  <2> DEFINE c == [cmd[r] EXCEPT !.left = {p \in Panes : Stale(p)}, !.dropped = FALSE]
  <2>1. c \in Commands /\ c.counts
    BY <1>5, <1>t DEF Commands, Sweep, Doing, WillCount
  <2>2. Swept(c).at \in {"drop", "count"} /\ Swept(c).counts
    BY <2>1 DEF Swept, Commands
  <2>3. cmd'[r] = Swept(c)
    BY <1>5, <1>t DEF Sweep, Becomes
  <2> QED
    BY <2>2, <2>3 DEF WillCount
<1>6. CASE Settle(r)
  BY <1>6, <1>t DEF Settle, Doing, Becomes, WillCount, StatusCalls, Idle
<1>7. CASE ListWindow(r)
  BY <1>7, <1>t DEF ListWindow, ListAs, Go, Becomes, At, Doing, WillCount, Commands
<1>8. CASE ListAll(r)
  BY <1>8, <1>t DEF ListAll, ListAs, Go, Becomes, Doing, WillCount, Commands
<1>9. CASE DrawWindows(r)
  BY <1>2, <1>9, <1>t DEF DrawWindows, Becomes
<1>10. CASE Write(r) \/ Mark(r) \/ Unflag(r) \/ flag' # flag
  BY <1>10, ChangeCounts
<1>11. CASE Drop(r) /\ flag' = flag
  <2>1. PICK p \in cmd[r].left :
           \/ cmd'[r] = [cmd[r] EXCEPT !.at = "list", !.pane = p, !.left = cmd[r].left \ {p}, !.dropped = TRUE]
           \/ cmd'[r] = Swept([cmd[r] EXCEPT !.left = cmd[r].left \ {p}])
    BY <1>11, <1>t DEF Drop, Becomes
  <2> DEFINE c == [cmd[r] EXCEPT !.left = cmd[r].left \ {p}]
  <2>2. /\ Swept(c).at = IF c.left # {} THEN "drop" ELSE IF cmd[r].counts THEN "count" ELSE "settle"
        /\ Swept(c).counts = cmd[r].counts /\ Swept(c).dropped = cmd[r].dropped
    BY <1>t DEF Swept, Commands
  <2>3. cmd[r].counts \/ cmd[r].dropped
    BY DEF WillCount
  <2> HIDE DEF c
  <2>4. CASE cmd'[r] = Swept(c)
    BY <2>2, <2>3, <2>4 DEF WillCount
  <2>5. CASE cmd'[r] # Swept(c)
    BY <1>t, <2>1, <2>5 DEF WillCount, Commands, c
  <2> QED
    BY <2>4, <2>5
<1> QED
  BY <1>3, <1>4, <1>5, <1>6, <1>7, <1>8, <1>9, <1>10, <1>11 DEF Acts

LEMMA ListedFactsPrime ==
  ASSUME NEW ps
  PROVE  /\ DOMAIN Listed(ps)' = ps'
         /\ \A p \in ps' : /\ Listed(ps)'[p].state = flag'[p].state /\ Listed(ps)'[p].failed = flag'[p].failed
                           /\ Listed(ps)'[p].win = win'[p]
  BY DEF Listed

\* The counts are those of the flags, wherever the panes are.
LEMMA CountsKept ==
  ASSUME Open' = Open, flag' = flag
  PROVE  Counts(Listed(Open))' = Counts(Listed(Open))
<1> DEFINE f == Listed(Open)
           g == Listed(Open)'
<1>1. DOMAIN f = DOMAIN g /\ \A p \in DOMAIN f : f[p].state = g[p].state /\ f[p].failed = g[p].failed
  BY ListedFacts, ListedFactsPrime
<1> HIDE DEF f, g
<1>2. Counts(f) = Counts(g)
  BY <1>1, SameCounts
<1>3. Counts(Listed(Open))' = Counts(g)
  BY DEF g, Counts
<1> QED
  BY <1>2, <1>3 DEF f

LEMMA CountedNext ==
  ASSUME Base, CountedInv, [Next]_vars
  PROVE  CountedInv'
<1> USE DEF Base
<1>t. /\ flag \in [Panes -> Flags] /\ cmd \in [Runners -> Commands] /\ win \in [Panes -> Windows \cup {Nobody}]
      /\ DOMAIN got = Runners /\ due \in Nat /\ \A r \in Runners : cmd[r].at \in OnAPane => Pane(r) \in Panes
  BY DEF TypeOK, GotInv
<1> DEFINE Counted == status = Counts(Listed(Open)) \/ \E r \in Runners : WillCount(r)
           Fresh == \A r \in Runners : cmd[r].at = "render" => ListedNow(r)
           There == \A r \in Runners : cmd[r].at \in {"list", "roll"} /\ ~cmd[r].sweeping => Alive(Pane(r))
           All3 == Counted /\ Fresh /\ There
<1> SUFFICES ASSUME OneAtATime, due' = 0 PROVE All3'
  BY ModeFixed DEF CountedInv, OneAtATime
<1>d. due = 0 => All3
  BY DEF CountedInv
<1>o. ASSUME NEW r \in Runners, r \in mode.runners PROVE \A q \in Runners \ {r} : cmd[q].at = "none"
  BY <1>o DEF CommandInv, OneAtATime, Busy
<1>1. CASE \E p \in Panes : Close(p)
  BY <1>1, <1>t DEF Close
<1>2. CASE UNCHANGED <<flag, cmd, got, status, due>> /\ Open' = Open /\ \A p \in Panes : Alive(p) => Alive(p)'
  <2>1. Counted'
    BY <1>d, <1>2, CountsKept DEF WillCount
  <2>2. Fresh'
    BY <1>d, <1>2 DEF ListedNow
  <2>3. There'
    BY <1>d, <1>2, <1>t DEF Pane, OnAPane
  <2> QED
    BY <2>1, <2>2, <2>3
<1>3. ASSUME NEW p \in Panes, NEW w \in mode.windows, Move(p, w)
      PROVE  UNCHANGED <<flag, cmd, got, status, due>> /\ Open' = Open /\ \A x \in Panes : Alive(x) => Alive(x)'
  <2>1. w # Nobody
    BY ModeFacts, AttentionAssumption DEF TypeOK
  <2> QED
    BY <1>3, <1>t, <2>1 DEF Move, Open, Alive, local
<1>4. ASSUME NEW p, NEW c, Switch(p, c)
      PROVE  UNCHANGED <<flag, cmd, got, status, due>> /\ Open' = Open /\ \A x \in Panes : Alive(x) => Alive(x)'
  BY <1>4 DEF Switch, Open, Alive, local
<1>5. ASSUME NEW r \in Runners, Starts(r) PROVE All3'
  <2>1. PICK c \in Commands : Run(r, c) /\ Started(c) /\ (due' = due \/ c = StatusCalls)
    BY <1>5, StartsRun
  <2>2. cmd' = [cmd EXCEPT ![r] = c] /\ cmd[r].at = "none" /\ UNCHANGED <<flag, win, status, got>>
    BY <2>1 DEF Run
  <2>3. \A q \in Runners : cmd[q].at = "none" /\ (q # r => cmd'[q].at = "none")
    BY <1>o, <1>t, <2>1, <2>2 DEF Run
  <2>4. Counted'
    <3>1. CASE c = StatusCalls
      BY <1>t, <2>2, <3>1 DEF WillCount, StatusCalls, Idle
    <3>2. CASE due' = due
      <4>1. status = Counts(Listed(Open))
        BY <1>d, <2>3, <3>2 DEF WillCount
      <4>2. Open' = Open /\ flag' = flag
        BY <2>2 DEF Open, Alive
      <4> QED
        BY <2>2, <4>1, <4>2, CountsKept
    <3> QED
      BY <2>1, <3>1, <3>2
  <2>5. cmd'[r].at \notin {"render", "list", "roll"}
    BY <1>t, <2>1, <2>2 DEF Started
  <2>6. Fresh' /\ There'
    BY <2>3, <2>5
  <2> QED
    BY <2>4, <2>6
<1>6. ASSUME NEW r \in Runners, Acts(r) PROVE All3'
  <2>1. PICK d \in Commands : cmd' = [cmd EXCEPT ![r] = d] /\ Formed(d)
    BY <1>6, ActsBecome
  <2>2. r \in mode.runners
    BY <1>6, ActsBecome DEF CommandInv
  <2>3. cmd'[r] = d /\ \A q \in Runners \ {r} : cmd[q].at = "none" /\ cmd'[q].at = "none"
    BY <1>o, <1>t, <2>1, <2>2
  <2>4. win' = win /\ due' = due /\ Open' = Open
    BY <1>6 DEF Acts, Missing, Read, Write, Mark, Again, Unflag, Drop, Look, Sweep, Settle, ListWindow,
                ListAll, ListAs, Roll, Render, DrawWindows, Unset, server, Open, Alive
  <2>i. All3
    BY <1>d, <2>4
  <2>5. Counted'
    <3>1. CASE Render(r)
      <4>1. ListedNow(r)
        BY <2>i, <3>1 DEF Render, Doing
      <4>2. Counts(got[r]) = Counts(Listed(Open))
        BY <4>1, SameCounts, ListedFacts DEF ListedNow
      <4>3. status' = Counts(got[r]) /\ flag' = flag
        BY <3>1 DEF Render
      <4> QED
        BY <2>4, <4>2, <4>3, CountsKept
    <3>2. CASE WillCount(r) /\ ~Render(r)
      BY <1>6, <2>i, <3>2, CountsOn
    <3>3. CASE flag' # flag
      BY <1>6, <3>3, ChangeCounts
    <3>4. CASE ~WillCount(r) /\ ~Render(r) /\ flag' = flag
      <4>1. status = Counts(Listed(Open))
        BY <2>3, <2>i, <3>4 DEF WillCount
      <4>2. status' = status
        BY <1>6, <3>4 DEF Acts, Missing, Read, Write, Mark, Again, Unflag, Drop, Look, Sweep, Settle, ListWindow,
                ListAll, ListAs, Roll, DrawWindows, Unset, server
      <4> QED
        BY <2>4, <3>4, <4>1, <4>2, CountsKept
    <3> QED
      BY <3>1, <3>2, <3>3, <3>4
  <2>6. d.at = "render" => ListedNow(r)'
    <3>1. CASE ListAll(r)
      <4>1. got'[r] = Listed(Open) /\ flag' = flag
        BY <1>t, <3>1 DEF ListAll, ListAs, server
      <4> QED
        BY <2>4, <4>1, ListedFacts DEF ListedNow
    <3> QED
      BY <1>6, <2>3, <3>1, ActsTo
  <2>7. d.at \in {"list", "roll"} /\ ~d.sweeping => Alive(d.pane)
    BY <1>6, <2>3, ActsTo
  <2>8. Fresh'
    BY <2>3, <2>6
  <2>9. There'
    BY <2>3, <2>4, <2>7 DEF Alive, Pane
  <2> QED
    BY <2>5, <2>8, <2>9
<1>7. CASE UNCHANGED vars
  BY <1>2, <1>7 DEF vars, server, local, Open, Alive
<1>8. CASE \E p \in Panes, c \in Programs \cup {Shell} : Switch(p, c)
  BY <1>2, <1>4, <1>8
<1>9. CASE \E p \in Panes, w \in mode.windows : Move(p, w)
  BY <1>2, <1>3, <1>9
<1>10. CASE \E r \in Runners : Starts(r) \/ Acts(r)
  BY <1>5, <1>6, <1>10
<1> QED
  BY <1>1, <1>7, <1>8, <1>9, <1>10, NextCases

\* Once commands that run one at a time, and the hooks of closed panes, have
\* run, the status bar counts the flags the panes have.
THEOREM StatusBarRight == Spec => []CountsRight
<1>1. Init => CountedInv
  <2> SUFFICES ASSUME Init PROVE CountedInv
    OBVIOUS
  <2>1. \A p \in DOMAIN Listed(Open) : Listed(Open)[p].state = "idle"
    BY DEF Init, Listed, Open, NoFlag
  <2>2. Counts(<<>>) = Counts(Listed(Open))
    <3>1. \A p \in DOMAIN <<>> : <<>>[p].state = "idle"
      OBVIOUS
    <3> QED
      BY <2>1, <3>1, NoCounts
  <2> QED
    BY <2>2 DEF Init, CountedInv, Idle
<1>2. CountedInv => CountsRight
  BY DEF CountedInv, CountsRight, Quiet, WillCount, Doing
<1>3. Base /\ CountedInv /\ [Next]_vars => CountedInv'
  BY CountedNext
<1> QED
  BY <1>1, <1>2, <1>3, BaseInvariant, PTL DEF Spec
-----------------------------------------------------------------------------
(* The windows. *)

\* Panes stay: a window is right, or the one command that runs is to roll it
\* up, with what it has listed.
StillInv ==
    OneAtATime /\ ~mode.moving =>
        /\ \A p \in Panes : Alive(p)
        /\ \A w \in Windows :
               \/ rolled[w] = RollUp(Listed(In(w)))
               \/ \E r \in Runners : cmd[r].at \in {"list", "roll"} /\ win[Pane(r)] = w
        /\ \A r \in Runners : cmd[r].at = "roll" => got[r] = Listed(In(win[Pane(r)]))
        /\ \A r \in Runners : cmd[r].at = "redraw" => got[r] = Listed(Panes)

LEMMA NothingRolls ==
  ASSUME NEW list, \A p \in DOMAIN list : list[p].state = "idle"
  PROVE  RollUp(list) = Nothing
<1> DEFINE states == {list[p].state : p \in DOMAIN list}
           best == IF states = {} THEN "idle" ELSE CHOOSE s \in states : \A t \in states : Rank(s) <= Rank(t)
<1>1. best = "idle"
  <2>1. CASE states = {}
    BY <2>1
  <2>2. CASE states # {}
    <3>1. states = {"idle"}
      BY <2>2
    <3>2. Rank("idle") <= Rank("idle")
      BY DEF Rank
    <3> QED
      BY <3>1, <3>2
  <2> QED
    BY <2>1, <2>2
<1>2. RollUp(list) = [state |-> best,
                      failed |-> best = "done" /\ \E p \in DOMAIN list : list[p].state = "done" /\ list[p].failed]
  BY DEF RollUp
<1> HIDE DEF best
<1> QED
  BY <1>1, <1>2 DEF Nothing

LEMMA ListedKept ==
  ASSUME NEW ps, ps' = ps, win' = win, \A p \in ps : flag'[p] = flag[p]
  PROVE  Listed(ps)' = Listed(ps)
  BY DEF Listed

\* A window none of whose panes changed rolls up to what it did.
LEMMA WindowKept ==
  ASSUME NEW w, win' = win, \A p \in In(w) : flag'[p] = flag[p]
  PROVE  /\ In(w)' = In(w) /\ Listed(In(w))' = Listed(In(w))
         /\ RollUp(Listed(In(w)))' = RollUp(Listed(In(w)))
<1> DEFINE f == Listed(In(w))
           g == Listed(In(w))'
<1>1. In(w)' = In(w)
  BY DEF In
<1>2. g = f
  BY <1>1, ListedKept
<1>3. RollUp(Listed(In(w)))' = RollUp(g)
  BY DEF g, RollUp
<1> HIDE DEF f, g
<1>4. RollUp(g) = RollUp(f)
  BY <1>2
<1> QED
  BY <1>1, <1>2, <1>3, <1>4 DEF f, g

LEMMA StillNext ==
  ASSUME Base, StillInv, [Next]_vars
  PROVE  StillInv'
<1> USE DEF Base
<1>t. /\ flag \in [Panes -> Flags] /\ cmd \in [Runners -> Commands] /\ win \in [Panes -> Windows \cup {Nobody}]
      /\ DOMAIN got = Runners /\ \A r \in Runners : cmd[r].at \in OnAPane => Pane(r) \in Panes
      /\ rolled \in [Windows -> [state : States, failed : BOOLEAN]]
  BY DEF TypeOK, GotInv
<1> DEFINE Right(w) == rolled[w] = RollUp(Listed(In(w)))
           Rolls(r, w) == cmd[r].at \in {"list", "roll"} /\ win[Pane(r)] = w
           Shown == \A w \in Windows : Right(w) \/ \E r \in Runners : Rolls(r, w)
           HasWindow(r) == cmd[r].at = "roll" => got[r] = Listed(In(win[Pane(r)]))
           HasAll(r) == cmd[r].at = "redraw" => got[r] = Listed(Panes)
           Has == \A r \in Runners : HasWindow(r) /\ HasAll(r)
           AllStay == \A p \in Panes : Alive(p)
<1>h. ASSUME OneAtATime, ~mode.moving PROVE StillInv <=> AllStay /\ Shown /\ Has
  BY <1>h DEF StillInv
<1> SUFFICES ASSUME OneAtATime, ~mode.moving PROVE AllStay' /\ Shown' /\ Has'
  BY ModeFixed DEF StillInv, OneAtATime
<1>a. AllStay /\ Shown /\ Has
  BY <1>h
<1>o. ASSUME NEW r \in Runners, r \in mode.runners PROVE \A q \in Runners \ {r} : cmd[q].at = "none"
  BY <1>o DEF CommandInv, OneAtATime, Busy
<1>s. ASSUME win' = win PROVE AllStay'
  BY <1>a, <1>s DEF Alive
<1>w. ASSUME win' = win, NEW w \in Windows, Right(w), rolled'[w] = rolled[w],
             \A p \in In(w) : flag'[p] = flag[p]
      PROVE  Right(w)'
  BY <1>w, WindowKept
<1>l. ASSUME win' = win, flag' = flag
      PROVE  Listed(Panes)' = Listed(Panes) /\ \A w : Listed(In(w))' = Listed(In(w))
  BY <1>l, ListedKept, WindowKept
\* A step that leaves the windows, their panes and what was listed alone.
<1>1. ASSUME UNCHANGED <<win, flag, rolled, cmd, got>> PROVE AllStay' /\ Shown' /\ Has'
  <2>1. ASSUME NEW w \in Windows PROVE Right(w)' \/ \E r \in Runners : Rolls(r, w)'
    <3>1. CASE Right(w)
      BY <1>1, <1>w, <3>1
    <3>2. CASE \E r \in Runners : Rolls(r, w)
      BY <1>1, <3>2 DEF Pane
    <3> QED
      BY <1>a, <3>1, <3>2
  <2>2. ASSUME NEW r \in Runners PROVE HasWindow(r)' /\ HasAll(r)'
    <3>1. HasAll(r)'
      BY <1>1, <1>a, <1>l
    <3>2. HasWindow(r)'
      <4>1. cmd' = cmd /\ got' = got /\ win' = win /\ flag' = flag
        BY <1>1
      <4>2. Listed(In(win[Pane(r)]))' = Listed(In(win[Pane(r)]))
        BY <4>1 DEF Listed, In, Pane
      <4> QED
        BY <1>a, <4>1, <4>2
    <3> QED
      BY <3>1, <3>2
  <2> QED
    BY <1>1, <1>s, <2>1, <2>2
<1>2. ASSUME NEW p, NEW w, Close(p) \/ Move(p, w) PROVE FALSE
  BY <1>2 DEF Close, Move
<1>3. ASSUME NEW p, NEW c, Switch(p, c) PROVE UNCHANGED <<win, flag, rolled, cmd, got>>
  BY <1>3 DEF Switch, local
<1>4. ASSUME NEW r \in Runners, Starts(r) PROVE AllStay' /\ Shown' /\ Has'
  <2>1. PICK c \in Commands : Run(r, c) /\ Started(c)
    BY <1>4, StartsRun
  <2>2. cmd' = [cmd EXCEPT ![r] = c] /\ cmd[r].at = "none" /\ r \in mode.runners
        /\ UNCHANGED <<flag, win, rolled, got>>
    BY <2>1 DEF Run
  <2>3. \A q \in Runners : cmd[q].at = "none"
    BY <1>o, <2>2
  <2>4. \A q \in Runners : cmd'[q].at \notin {"list", "roll", "redraw"}
    BY <1>t, <2>1, <2>2, <2>3 DEF Started
  <2>5. \A w \in Windows : Right(w)
    BY <1>a, <2>3
  <2>6. Shown'
    BY <1>w, <2>2, <2>5
  <2>7. Has'
    BY <2>4
  <2> QED
    BY <1>s, <2>2, <2>6, <2>7
<1>5. ASSUME NEW r \in Runners, Acts(r) PROVE AllStay' /\ Shown' /\ Has'
  <2>1. PICK d \in Commands : cmd' = [cmd EXCEPT ![r] = d] /\ Formed(d)
    BY <1>5, ActsBecome
  <2>2. r \in mode.runners /\ Busy(r)
    BY <1>5, ActsBecome DEF CommandInv
  <2>3. cmd'[r] = d /\ \A q \in Runners \ {r} : cmd[q].at = "none" /\ cmd'[q].at = "none"
    BY <1>o, <1>t, <2>1, <2>2
  <2>4. win' = win
    BY <1>5 DEF Acts, Missing, Read, Write, Mark, Again, Unflag, Drop, Look, Sweep, Settle, ListWindow,
                ListAll, ListAs, Roll, Render, DrawWindows, Unset, server
  <2>5. \A w \in Windows : Right(w) \/ Rolls(r, w)
    BY <1>a, <2>3
  <2>6. Shown'
    <3>1. CASE flag' # flag \/ Write(r) \/ Mark(r) \/ Unflag(r)
      <4>1. /\ rolled' = rolled /\ cmd[r].at \notin {"list", "roll"}
            /\ \E p \in Panes : /\ cmd'[r].at = "list" /\ cmd'[r].pane = p
                                /\ \A x \in Panes \ {p} : flag'[x] = flag[x]
        <5>1. CASE Write(r) \/ Mark(r) \/ Unflag(r)
          BY <1>t, <5>1 DEF Write, Mark, Unflag, Unset, Go, Becomes, At, Doing, OnAPane, Pane, Commands
        <5>2. CASE Drop(r) /\ flag' # flag
          <6>1. PICK p \in cmd[r].left :
                    /\ Unset(p) /\ Doing(r, "drop")
                    /\ Becomes(r, [cmd[r] EXCEPT !.at = "list", !.pane = p,
                                                 !.left = cmd[r].left \ {p}, !.dropped = TRUE])
            BY <5>2 DEF Drop, server
          <6>2. p \in Panes
            BY <1>t DEF Commands
          <6> QED
            BY <1>t, <6>1, <6>2 DEF Unset, Doing, Becomes, Commands
        <5> QED
          BY <1>5, <3>1, <5>1, <5>2, FlagsChange
      <4>2. PICK p \in Panes : /\ cmd'[r].at = "list" /\ cmd'[r].pane = p
                               /\ \A x \in Panes \ {p} : flag'[x] = flag[x]
        BY <4>1
      <4>3. ASSUME NEW w \in Windows PROVE Right(w)' \/ Rolls(r, w)'
        <5>1. CASE w = win[p]
          BY <2>4, <4>2, <5>1 DEF Pane
        <5>2. CASE w # win[p]
          BY <1>w, <2>4, <2>5, <4>1, <4>2, <5>2 DEF In
        <5> QED
          BY <5>1, <5>2
      <4> QED
        BY <4>3
    <3>2. CASE Roll(r)
      <4> DEFINE v == win[Pane(r)]
      <4>1. rolled' = [rolled EXCEPT ![v] = RollUp(Listed(In(v)))] /\ flag' = flag
        BY <1>a, <3>2 DEF Roll, At, Doing
      <4>2. ASSUME NEW w \in Windows PROVE rolled'[w] = RollUp(Listed(In(w)))
        BY <1>t, <2>5, <4>1, <4>2
      <4> QED
        BY <2>4, <4>1, <4>2, WindowKept
    <3>3. CASE DrawWindows(r)
      <4>1. got[r] = Listed(Panes) /\ flag' = flag /\ \A w \in Windows : Right(w)
        BY <1>a, <2>5, <3>3 DEF DrawWindows, Doing
      <4> DEFINE list == Listed(Panes)
                 part(w) == [p \in {q \in DOMAIN list : list[q].win = w} |-> list[p]]
      <4>2. ASSUME NEW w PROVE part(w) = Listed(In(w))
        BY DEF Listed, In
      <4>3. ASSUME NEW w \in Windows PROVE rolled'[w] = RollUp(part(w)) \/ rolled'[w] = rolled[w]
        BY <3>3, <4>1 DEF DrawWindows
      <4> HIDE DEF list, part
      <4>4. \A w \in Windows : rolled'[w] = RollUp(Listed(In(w)))
        BY <4>1, <4>2, <4>3
      <4> QED
        BY <2>4, <4>1, <4>4, WindowKept
    <3>4. CASE ListWindow(r)
      <4>1. flag' = flag /\ rolled' = rolled /\ cmd'[r].at = "roll" /\ cmd'[r].pane = Pane(r)
        BY <1>t, <3>4 DEF ListWindow, ListAs, Go, Becomes, Commands, Pane, server
      <4> QED
        BY <1>w, <2>4, <2>5, <4>1 DEF Pane
    <3>5. CASE ~(flag' # flag \/ Write(r) \/ Mark(r) \/ Unflag(r) \/ Roll(r) \/ DrawWindows(r) \/ ListWindow(r))
      <4>1. rolled' = rolled /\ cmd[r].at \notin {"list", "roll"}
        BY <1>5, <1>a, <1>t, <3>5
           DEF Acts, Missing, Read, Again, Drop, Look, Sweep, Settle, ListAll, ListAs, Render,
               Unset, At, Doing, OnAPane, server
      <4> QED
        BY <1>w, <2>4, <2>5, <3>5, <4>1
    <3> QED
      BY <3>1, <3>2, <3>3, <3>4, <3>5
  <2>7. HasWindow(r)'
    <3>1. CASE ListWindow(r)
      <4>1. /\ flag' = flag /\ cmd'[r].pane = cmd[r].pane
            /\ got'[r] = Listed(In(win[cmd[r].pane]))
        BY <1>t, <3>1 DEF ListWindow, ListAs, Go, Becomes, Commands, Pane, server
      <4>2. Listed(In(win[cmd[r].pane]))' = Listed(In(win[cmd[r].pane]))
        BY <2>4, <4>1 DEF Listed, In
      <4> QED
        BY <4>1, <4>2 DEF Pane
    <3>2. CASE Write(r) \/ Mark(r) \/ Unflag(r)
      BY <1>t, <3>2 DEF Write, Mark, Unflag, Go, Becomes, Commands
    <3>3. CASE Drop(r)
      <4>1. PICK p \in cmd[r].left :
               \/ cmd'[r] = [cmd[r] EXCEPT !.at = "list", !.pane = p, !.left = cmd[r].left \ {p}, !.dropped = TRUE]
               \/ cmd'[r] = Swept([cmd[r] EXCEPT !.left = cmd[r].left \ {p}])
        BY <1>t, <3>3 DEF Drop, Becomes
      <4>2. [cmd[r] EXCEPT !.left = cmd[r].left \ {p}] \in Commands
        BY <1>t DEF Commands
      <4> QED
        BY <1>t, <4>1, <4>2, SweptType DEF Commands
    <3> QED
      BY <1>5, <3>1, <3>2, <3>3, ActsTo
  <2>8. HasAll(r)'
    <3>1. CASE ListAll(r)
      <4>1. flag' = flag /\ got'[r] = Listed(Open) /\ Open = Panes
        BY <1>a, <1>t, <3>1 DEF ListAll, ListAs, Open, server
      <4> QED
        BY <1>l, <2>4, <4>1
    <3> QED
      BY <1>5, <3>1, ActsTo
  <2>9. Has'
    BY <2>3, <2>7, <2>8
  <2> QED
    BY <1>s, <2>4, <2>6, <2>9
<1>6. CASE UNCHANGED vars
  BY <1>1, <1>6 DEF vars, server, local
<1>7. CASE \E p \in Panes, c \in Programs \cup {Shell} : Switch(p, c)
  BY <1>1, <1>3, <1>7
<1>8. CASE (\E p \in Panes : Close(p)) \/ (\E p \in Panes, w \in mode.windows : Move(p, w))
  BY <1>2, <1>8
<1>9. CASE \E r \in Runners : Starts(r) \/ Acts(r)
  BY <1>4, <1>5, <1>9
<1> QED
  BY <1>6, <1>7, <1>8, <1>9, NextCases

\* As long as panes stay where they are, and commands run one at a time, a
\* window shows the highest-ranked flag of its panes once the commands have
\* run, whatever programs exit and however tmux-init redraws the windows.
THEOREM WindowsStayRight == Spec => []StillWindowsRight
<1>1. Init => StillInv
  <2> SUFFICES ASSUME Init PROVE StillInv
    OBVIOUS
  <2>1. ASSUME NEW w \in Windows PROVE rolled[w] = RollUp(Listed(In(w)))
    <3>1. \A p \in DOMAIN Listed(In(w)) : Listed(In(w))[p].state = "idle"
      BY DEF Init, Listed, In, NoFlag
    <3> QED
      BY <3>1, NothingRolls DEF Init
  <2>2. \A p \in Panes : Alive(p)
    BY ModeFacts, AttentionAssumption DEF Init, Alive
  <2>3. \A r \in Runners : cmd[r].at = "none"
    BY DEF Init, Idle
  <2> QED
    BY <2>1, <2>2, <2>3 DEF StillInv
<1>2. StillInv => StillWindowsRight
  BY DEF StillInv, StillWindowsRight, RollUpsRight, Quiet, Doing
<1>3. Base /\ StillInv /\ [Next]_vars => StillInv'
  BY StillNext
<1> QED
  BY <1>1, <1>2, <1>3, BaseInvariant, PTL DEF Spec
=============================================================================
