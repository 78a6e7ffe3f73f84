------------------------ MODULE AgentSession_proofs ------------------------
(***************************************************************************)
(* Proofs about AgentSession, for any runs, sessions and tools and for     *)
(* every mode of what may happen.                                          *)
(***************************************************************************)
EXTENDS AgentSession, FiniteSetTheorems, TLAPS

\* What may happen in a mode.
May(way) == way \in mode.ways

Active(r) == run[r].phase \notin {"none", "gone"}

\* A hook is about the session its run is in, or has just left.
HookInv ==
    \A r \in Runs :
        /\ run[r].phase \in {"none", "launched"} => run[r].session = Nobody /\ hook[r] = NoHook
        /\ run[r].phase = "none" => ~run[r].launched
        /\ run[r].phase \in {"launched", "ending"} => run[r].launched
        /\ run[r].session = Nobody => run[r].asked = {}
        /\ hook[r] # NoHook =>
               /\ hook[r].kind # "none" /\ hook[r].session \in Ids
               /\ run[r].session = IF hook[r].kind = "end" THEN Nobody ELSE hook[r].session
               /\ hook[r].end # "none" <=> hook[r].kind = "end"
               /\ run[r].oneShot => hook[r].end # "exited"
               /\ hook[r].kind = "ask" => hook[r].tool \in Tools \cup {Nobody}

\* One-turn runs are in sessions of their own, which no pane resumes.
OneShotInv ==
    /\ \A r \in Runs : run[r].oneShot \/ (run[r].session \notin OneShots /\ hook[r].session \notin OneShots)
    /\ OneShotStays

\* The pane's run is one its launcher registered.
PaneInv ==
    pane.run # Nobody =>
        /\ run[pane.run].launched /\ run[pane.run].phase \in {"running", "ending", "gone"}
        /\ pane.oneShot = run[pane.run].oneShot

\* A restore types the resume before any other agent starts.
BackInv == back # Nobody => Quiet

\* Only a slow Seen or sweep has a flag read and not cleared.
DueInv == due # "none" => May("slow")

\* Without other jobs one agent runs at a time, and a hook that is not late
\* is a running one's.
TurnInv ==
    /\ ~May("jobs") => \A r, q \in Runs : Active(r) /\ Active(q) => r = q
    /\ ~May("late") => \A r \in Runs : hook[r] # NoHook => Running(r)

\* A pane whose run is one-turn resumes nothing.
TurnedInv ==
    ~May("jobs") /\ ~May("late") /\ pane.run # Nobody /\ pane.oneShot /\ run[pane.run].phase # "gone"
        => pane.revive = Nobody

\* A launched run that got the lock has the pane.
LaunchedInv ==
    /\ ~May("bare") => \A r \in Runs : run[r].phase # "none" => run[r].launched
    /\ ~May("jobs") /\ ~May("busy") =>
           \A r \in Runs : run[r].phase \in {"running", "ending"} /\ run[r].launched => pane.run = r

\* Hooks are heard, and in time, and none in the middle of a Seen or a sweep.
InTime == ~May("jobs") /\ ~May("late") /\ ~May("lost") /\ ~May("slow")

\* Between hooks the pane has the session of the agent that runs in it.
Heard(r) == hook[r].kind # "start"
SessionInv ==
    InTime =>
        \A r \in Runs :
            /\ Running(r) /\ run[r].session # Nobody /\ Heard(r) => pane.session = run[r].session
            /\ hook[r].kind \notin {"none", "start"} => pane.session = hook[r].session

\* A session that is over has its agent's or its launcher's last word still
\* to come, or the pane has let go of it.
OverInv ==
    mode.ways \subseteq {"bare"} =>
        /\ \A r \in Runs : hook[r].kind = "start" => hook[r].session \notin over
        /\ pane.revive \in over =>
               \E r \in Runs :
                   \/ hook[r].kind = "end" /\ hook[r].end = "exited"
                   \/ run[r].phase = "ending" /\ ~run[r].killed /\ pane.run = r

\* An agent waits on one decision: one on a tool is on its way to the pane, or the
\* pane waits on it.
PendingInv ==
    InTime =>
        \A r \in Runs : Running(r) /\ ~run[r].oneShot /\ run[r].asked # {} =>
            \E t \in Tools \cup {Nobody} :
                /\ run[r].asked = {t}
                /\ \/ t = Nobody
                   \/ hook[r].kind = "ask" /\ hook[r].tool = t
                   \/ /\ flag.state = "needs-you" /\ pane.wait = t
                      /\ hook[r] # NoHook => hook[r].kind = "toolEnd" /\ hook[r].tool # t

\* The record of the agent's session has the state of its pane.
RecordInv ==
    InTime =>
        \A r \in Runs : Running(r) /\ ~run[r].oneShot /\ run[r].session # Nobody /\ Heard(r) =>
            /\ record[run[r].session] = [state |-> pane.state, end |-> "none"]
            /\ flag.state = pane.state \/ (pane.state = "done" /\ flag.state = "idle")
-----------------------------------------------------------------------------
(* Types. *)

FlagType == [state : States, owned : BOOLEAN]
RecordType == [Ids -> [state : States, end : {"none", "exited", "killed", "unknown"}]]

LEMMA Types ==
  ASSUME TypeOK
  PROVE  /\ pane \in PaneType /\ flag \in FlagType /\ record \in RecordType
         /\ run \in [Runs -> RunType] /\ hook \in [Runs -> HookType]
         /\ back \in Ids \cup {Nobody} /\ over \subseteq Ids
  BY DEF TypeOK, FlagType, RecordType

LEMMA ModeTypes ==
  ASSUME TypeOK
  PROVE  mode.sessions \subseteq Sessions /\ mode.tools \subseteq Tools
  BY SessionAssumption DEF TypeOK

LEMMA NobodyIsNone == Nobody \notin Ids /\ Nobody \notin Runs /\ Nobody \notin Tools /\ Nobody \notin OneShots
  BY SessionAssumption DEF Ids

LEMMA FreeType == Free \in PaneType /\ ~Free.oneShot /\ Free.run = Nobody /\ Free.revive = Nobody
  BY DEF Free, PaneType, States

LEMMA LetGoType ==
  ASSUME NEW p \in PaneType
  PROVE  /\ LetGo(p) \in PaneType /\ LetGo(p).run = p.run /\ LetGo(p).oneShot = p.oneShot
         /\ LetGo(p).session = Nobody /\ LetGo(p).revive = Nobody
  BY DEF LetGo, PaneType, States

LEMMA FlagTypes == Idle \in FlagType /\ \A s \in States : Own(s) \in FlagType /\ (flag \in FlagType => Flagged(s) \in FlagType)
  BY DEF Idle, Own, Flagged, FlagType, States

LEMMA MarkedType ==
  ASSUME record \in RecordType, NEW s \in Ids \cup {Nobody}, NEW end \in {"none", "exited", "killed", "unknown"}
  PROVE  Marked(s, end) \in RecordType
  BY DEF Marked, RecordType

LEMMA NoHookType == NoHook \in HookType /\ NoHook.kind = "none" /\ NoHook.session = Nobody /\ NoHook.end = "none"
  BY DEF NoHook, HookType

LEMMA TypeInit == Init => TypeOK
<1> SUFFICES ASSUME Init PROVE TypeOK
  OBVIOUS
<1>1. run \in [Runs -> RunType]
  BY DEF Init, RunType
<1>2. hook \in [Runs -> HookType]
  BY NoHookType DEF Init
<1>3. record \in RecordType
  BY DEF Init, RecordType, States
<1>4. pane \in PaneType /\ pane.oneShot = FALSE /\ flag \in FlagType
  BY FreeType, FlagTypes DEF Init
<1> QED
  BY <1>1, <1>2, <1>3, <1>4 DEF Init, TypeOK, FlagType, RecordType

-----------------------------------------------------------------------------
(* What a hook does to the pane. *)

\* The pane's run is one-turn, and the hook is its.
Turned(r) == run[r].launched /\ pane.run = r /\ pane.oneShot

LEMMA HookType1 ==
  ASSUME TypeOK, HookInv, NEW r \in Runs, hook[r] # NoHook
  PROVE  /\ hook[r] \in HookType /\ hook[r].kind # "none" /\ hook[r].session \in Ids
         /\ hook[r].tool \in Tools \cup {Nobody} /\ hook[r].end \in {"none", "exited", "unknown"}
  BY DEF TypeOK, HookInv, HookType

LEMMA AdoptedPane ==
  ASSUME TypeOK, NEW r \in Runs, NEW s \in Ids
  PROVE  /\ Adopted(r, s) \in PaneType
         /\ Adopted(r, s).run = pane.run /\ Adopted(r, s).oneShot = pane.oneShot
         /\ Adopted(r, s).session = s
         /\ Adopted(r, s).state = pane.state /\ Adopted(r, s).wait = pane.wait
         /\ s = pane.session => Adopted(r, s) = pane
         /\ s # pane.session => Adopted(r, s).revive = IF OneShotHook(r) THEN pane.revive ELSE s
<1>1. pane \in PaneType
  BY DEF TypeOK
<1>2. CASE s = pane.session
  BY <1>1, <1>2 DEF Adopted
<1>3. CASE s # pane.session
  <2> DEFINE was == IF OneShotHook(r) THEN pane.revive ELSE s
  <2>1. was \in Ids \cup {Nobody}
    BY <1>1 DEF PaneType
  <2>2. Adopted(r, s) = [pane EXCEPT !.agent = TRUE, !.session = s, !.revive = was]
    BY <1>3 DEF Adopted
  <2> HIDE DEF was
  <2>3. /\ Adopted(r, s) \in PaneType
        /\ Adopted(r, s).run = pane.run /\ Adopted(r, s).oneShot = pane.oneShot
        /\ Adopted(r, s).session = s /\ Adopted(r, s).revive = was
        /\ Adopted(r, s).state = pane.state /\ Adopted(r, s).wait = pane.wait
    BY <1>1, <2>1, <2>2 DEF PaneType
  <2> QED
    BY <1>3, <2>3 DEF was
<1> QED
  BY <1>2, <1>3

\* The hooks other than a start or an end.
ApplyOther(r) ==
    LET e == hook[r] IN
    \/ e.kind \in {"working", "toolEnd"} /\ ApplyWorking(r, e)
    \/ e.kind = "ask" /\ ApplyState(r, e, "needs-you")
    \/ e.kind = "turnEnd" /\ ApplyState(r, e, "done")

LEMMA ApplyStateEffect ==
  ASSUME TypeOK, NEW r \in Runs, NEW e \in HookType, e.session \in Ids, NEW state \in States, ApplyState(r, e, state)
  PROVE  /\ pane' \in PaneType /\ flag' \in FlagType /\ record' \in RecordType
         /\ pane'.run = pane.run /\ pane'.oneShot = pane.oneShot /\ pane'.session = e.session
         /\ pane'.revive = Adopted(r, e.session).revive
         /\ flag'.state = state
         /\ IF flag.state = state /\ state # "needs-you"
            THEN pane' = Adopted(r, e.session) /\ UNCHANGED record
            ELSE /\ pane'.state = state /\ pane'.wait = e.tool
                 /\ record' = [record EXCEPT ![e.session].state = state]
<1>1. flag' \in FlagType /\ flag'.state = state
  BY FlagTypes, Types DEF ApplyState, Flagged, Own, FlagType
<1>2. CASE flag.state = state /\ state # "needs-you"
  <2>1. pane' = Adopted(r, e.session) /\ UNCHANGED record
    BY <1>2 DEF ApplyState
  <2> QED
    BY <1>1, <1>2, <2>1, AdoptedPane, Types
<1>3. CASE ~(flag.state = state /\ state # "needs-you")
  <2>1. pane' = [Adopted(r, e.session) EXCEPT !.state = state, !.wait = e.tool]
    BY <1>3 DEF ApplyState
  <2>2. record' = [record EXCEPT ![e.session].state = state]
    BY <1>3 DEF ApplyState, Remembered
  <2>3. record' \in RecordType
    BY <2>2, Types DEF RecordType
  <2>4. e.tool \in Tools \cup {Nobody}
    BY DEF HookType
  <2>5. /\ pane' \in PaneType /\ pane'.run = pane.run /\ pane'.oneShot = pane.oneShot
        /\ pane'.session = e.session /\ pane'.revive = Adopted(r, e.session).revive
        /\ pane'.state = state /\ pane'.wait = e.tool
    <3> DEFINE p == Adopted(r, e.session)
    <3>1. p \in PaneType /\ p.run = pane.run /\ p.oneShot = pane.oneShot /\ p.session = e.session
      BY AdoptedPane
    <3>2. pane' = [p EXCEPT !.state = state, !.wait = e.tool]
      BY <2>1
    <3> HIDE DEF p
    <3>3. pane' \in PaneType /\ pane'.run = p.run /\ pane'.oneShot = p.oneShot /\ pane'.session = p.session
          /\ pane'.revive = p.revive /\ pane'.state = state /\ pane'.wait = e.tool
      BY <2>4, <3>1, <3>2 DEF PaneType
    <3> QED
      BY <3>1, <3>3 DEF p
  <2> QED
    BY <1>1, <1>3, <2>2, <2>3, <2>5
<1> QED
  BY <1>2, <1>3

LEMMA OtherEffect ==
  ASSUME TypeOK, HookInv, NEW r \in Runs, hook[r] # NoHook, ApplyOther(r)
  PROVE  /\ pane' \in PaneType /\ flag' \in FlagType /\ record' \in RecordType
         /\ pane'.run = pane.run /\ pane'.oneShot = pane.oneShot /\ pane'.session = hook[r].session
         /\ pane'.revive = Adopted(r, hook[r].session).revive
<1> DEFINE e == hook[r]
<1>1. e \in HookType /\ e.session \in Ids
  BY HookType1
<1>2. CASE e.kind \in {"working", "toolEnd"} /\ ApplyWorking(r, e)
  <2>1. CASE Waits(e)
    <3>1. pane' = Adopted(r, e.session) /\ UNCHANGED <<flag, record>>
      BY <1>2, <2>1 DEF ApplyWorking
    <3> QED
      BY <1>1, <3>1, AdoptedPane, Types
  <2>2. CASE ~Waits(e)
    <3>1. [e EXCEPT !.tool = Nobody] \in HookType /\ [e EXCEPT !.tool = Nobody].session = e.session
      BY <1>1 DEF HookType
    <3>2. ApplyState(r, [e EXCEPT !.tool = Nobody], "working")
      BY <1>2, <2>2 DEF ApplyWorking
    <3>3. PICK d \in HookType : d.session = e.session /\ ApplyState(r, d, "working")
      BY <3>1, <3>2
    <3>4. "working" \in States
      BY DEF States
    <3> QED
      <4>1. /\ pane' \in PaneType /\ flag' \in FlagType /\ record' \in RecordType
            /\ pane'.run = pane.run /\ pane'.oneShot = pane.oneShot /\ pane'.session = d.session
            /\ pane'.revive = Adopted(r, d.session).revive
        BY <1>1, <3>3, <3>4, ApplyStateEffect
      <4> QED
        BY <3>3, <4>1
  <2> QED
    BY <2>1, <2>2
<1>3. ASSUME NEW state \in {"needs-you", "done"}, ApplyState(r, e, state)
      PROVE  /\ pane' \in PaneType /\ flag' \in FlagType /\ record' \in RecordType
             /\ pane'.run = pane.run /\ pane'.oneShot = pane.oneShot /\ pane'.session = hook[r].session
             /\ pane'.revive = Adopted(r, hook[r].session).revive
  <2>1. state \in States
    BY DEF States
  <2> QED
    BY <1>1, <1>3, <2>1, ApplyStateEffect
<1> QED
  BY <1>2, <1>3 DEF ApplyOther

LEMMA StartEffect ==
  ASSUME TypeOK, HookInv, NEW r \in Runs, hook[r] # NoHook, ApplyStart(r, hook[r])
  PROVE  /\ pane' \in PaneType /\ flag' \in FlagType /\ record' \in RecordType
         /\ pane'.run = pane.run /\ pane'.oneShot = pane.oneShot /\ pane'.session = hook[r].session
         /\ pane'.revive = Command(r, hook[r].session)
         /\ flag'.state = pane'.state
         /\ record'[hook[r].session] = [state |-> pane'.state, end |-> "none"]
<1> DEFINE s == hook[r].session
           old == IF pane.resume = s /\ record[s].end # "exited" THEN record[s].state ELSE "idle"
           state == IF old = "working" THEN "needs-you" ELSE old
           command == Command(r, s)
<1>1. s \in Ids /\ pane \in PaneType /\ record \in RecordType /\ flag \in FlagType
  BY HookType1, Types
<1>2. state \in States
  BY <1>1 DEF RecordType, States
<1>3. command \in Ids \cup {Nobody}
  BY <1>1 DEF Command
<1>4. /\ flag' = IF state = "idle" THEN Idle ELSE Flagged(state)
      /\ pane' = [pane EXCEPT !.agent = TRUE, !.session = s, !.state = state, !.wait = Nobody,
                              !.resume = Nobody, !.revive = command]
      /\ record' = [record EXCEPT ![s] = [state |-> state, end |-> "none"]]
  BY DEF ApplyStart
<1> HIDE DEF state, command, s
<1>5. flag' \in FlagType /\ flag'.state = state
  BY <1>1, <1>2, <1>4, FlagTypes DEF Idle, Flagged, Own, FlagType
<1>6. /\ pane' \in PaneType /\ pane'.run = pane.run /\ pane'.oneShot = pane.oneShot /\ pane'.session = s
      /\ pane'.state = state /\ pane'.revive = command
  BY <1>1, <1>2, <1>3, <1>4 DEF PaneType
<1>7. record' \in RecordType /\ record'[s] = [state |-> state, end |-> "none"]
  BY <1>1, <1>2, <1>4 DEF RecordType
<1> QED
  BY <1>5, <1>6, <1>7 DEF s, command

LEMMA EndEffect ==
  ASSUME TypeOK, HookInv, NEW r \in Runs, hook[r] # NoHook, ApplyEnd(hook[r])
  PROVE  /\ pane' \in PaneType /\ flag' \in FlagType /\ record' \in RecordType
         /\ pane'.run = pane.run /\ pane'.oneShot = pane.oneShot
         /\ IF hook[r].end = "exited" THEN pane'.session = Nobody /\ pane'.revive = Nobody ELSE pane' = pane
<1>1. hook[r].session \in Ids /\ hook[r].end \in {"none", "exited", "unknown"}
  BY HookType1
<1>2. record' \in RecordType
  BY <1>1, Types, MarkedType DEF ApplyEnd
<1> QED
  BY <1>2, FlagTypes, Types, LetGoType DEF ApplyEnd

LEMMA OneShotEffect ==
  ASSUME TypeOK, HookInv, NEW r \in Runs, hook[r] # NoHook, ApplyOneShot(hook[r])
  PROVE  /\ pane' \in PaneType /\ flag' = flag /\ record' \in RecordType
         /\ pane'.run = pane.run /\ pane'.oneShot = pane.oneShot /\ pane'.revive = pane.revive
         /\ pane'.session = IF hook[r].kind = "end" THEN pane.session ELSE hook[r].session
<1> DEFINE e == hook[r]
<1>1. e.session \in Ids /\ e.end \in {"none", "exited", "unknown"} /\ pane \in PaneType
  BY HookType1, Types
<1>2. CASE e.kind = "end"
  BY <1>1, <1>2, Types, MarkedType DEF ApplyOneShot
<1>3. CASE e.kind # "end"
  <2>1. UNCHANGED <<record, flag>>
    BY <1>3 DEF ApplyOneShot
  <2>2. CASE e.session = pane.session
    BY <1>1, <1>3, <2>1, <2>2, Types DEF ApplyOneShot
  <2>3. CASE e.session # pane.session
    <3>1. pane' = [pane EXCEPT !.agent = TRUE, !.session = e.session]
      BY <1>3, <2>3 DEF ApplyOneShot
    <3> QED
      BY <1>1, <1>3, <2>1, <3>1, Types DEF PaneType
  <2> QED
    BY <2>2, <2>3
<1> QED
  BY <1>2, <1>3

LEMMA ApplyEffect ==
  ASSUME TypeOK, HookInv, NEW r \in Runs, Apply(r)
  PROVE  /\ hook[r] # NoHook /\ hook' = [hook EXCEPT ![r] = NoHook]
         /\ UNCHANGED <<mode, run, maybe, back, over>>
         /\ pane' \in PaneType /\ flag' \in FlagType /\ record' \in RecordType
         /\ pane'.run = pane.run /\ pane'.oneShot = pane.oneShot
         /\ \/ Turned(r) /\ ApplyOneShot(hook[r])
            \/ ~Turned(r) /\ hook[r].kind = "start" /\ ApplyStart(r, hook[r])
            \/ ~Turned(r) /\ hook[r].kind = "end" /\ ApplyEnd(hook[r])
            \/ ~Turned(r) /\ hook[r].kind \notin {"start", "end"} /\ ApplyOther(r)
<1>1. /\ hook[r] # NoHook /\ hook' = [hook EXCEPT ![r] = NoHook]
      /\ UNCHANGED <<mode, run, maybe, back, over>>
  BY DEF Apply
<1>2. \/ Turned(r) /\ ApplyOneShot(hook[r])
      \/ ~Turned(r) /\ hook[r].kind = "start" /\ ApplyStart(r, hook[r])
      \/ ~Turned(r) /\ hook[r].kind = "end" /\ ApplyEnd(hook[r])
      \/ ~Turned(r) /\ hook[r].kind \notin {"start", "end"} /\ ApplyOther(r)
  BY DEF Apply, Turned, ApplyOther
<1> QED
  BY <1>1, <1>2, OneShotEffect, StartEffect, EndEffect, OtherEffect, Types
-----------------------------------------------------------------------------
\* Steps on the flag alone.
FlagStep == Seen \/ Sweep \/ FlagRead \/ FlagCleared

\* What is due to be cleared has been read before.
LEMMA DueSteps ==
  ASSUME [Next]_vars PROVE due' \in {due, "none"} \/ FlagRead
<1>1. ASSUME NEW r \in Runs, Begin(r) \/ Resume(r) \/ BeginBare(r) \/ Register(r) \/ RegisterLate(r) \/ Exit(r) \/ Kill(r)
      PROVE  due' = due
  BY <1>1 DEF Begin, Resume, Launch, BeginBare, Register, RegisterLate, Exit, Kill, Dies
<1>2. ASSUME NEW r \in Runs, NEW e, Send(r, e) PROVE due' = due
  BY <1>2 DEF Send
<1>3. ASSUME NEW r \in Runs, \/ \E s \in Ids : SendStart(r, s)
                             \/ \E t \in mode.tools \cup {Nobody} : SendAsk(r, t)
                             \/ \E t \in mode.tools : SendToolEnd(r, t)
                             \/ SendWorking(r) \/ SendTurnEnd(r) \/ SendEnd(r)
      PROVE  due' = due
  BY <1>2, <1>3 DEF SendStart, SendAsk, SendToolEnd, SendWorking, SendTurnEnd, SendEnd
<1>4. ASSUME NEW r \in Runs, Answered(r) \/ Apply(r) \/ Lose(r) \/ Finish(r) \/ FinishLate(r) PROVE due' = due
  BY <1>4 DEF Answered, Apply, Lose, Finish, FinishLate
<1>5. CASE ResumeGone \/ SweepList \/ SweepAgents \/ Seen \/ Sweep \/ FlagCleared \/ Restart \/ UNCHANGED vars
  BY <1>5 DEF ResumeGone, SweepList, SweepAgents, Seen, Sweep, FlagCleared, Restart, vars
<1> QED
  BY <1>1, <1>3, <1>4, <1>5 DEF Next

LEMMA TypeNext == ASSUME TypeOK, HookInv, [Next]_vars PROVE TypeOK'
<1> DEFINE PaneOK == pane \in PaneType /\ (pane.oneShot => pane.run # Nobody)
           MaybeOK == maybe = <<>> \/ \E s \in Ids \cup {Nobody} : maybe = <<s>>
           RestOK == back \in Ids \cup {Nobody} /\ over \subseteq Ids /\ mode \in Modes
           RunOK == run \in [Runs -> RunType]
           HookOK == hook \in [Runs -> HookType]
           FlagOK == flag \in FlagType
           RecordOK == record \in RecordType
           DueOK == due \in {"none", "Seen", "Sweep"}
<1>t. PaneOK /\ MaybeOK /\ RestOK /\ RunOK /\ HookOK /\ FlagOK /\ RecordOK /\ DueOK
  BY DEF TypeOK, FlagType, RecordType
<1>z. DueOK'
  BY <1>t, DueSteps DEF FlagRead
<1>p. PaneOK' /\ MaybeOK' /\ RestOK' /\ RunOK' /\ HookOK' /\ FlagOK' /\ RecordOK' => TypeOK'
  BY <1>z DEF TypeOK, FlagType, RecordType
<1> HIDE DEF PaneOK, MaybeOK, RestOK, RunOK, HookOK, FlagOK, RecordOK, DueOK
<1>a. UNCHANGED pane => PaneOK'
  BY <1>t DEF PaneOK
<1>b. UNCHANGED maybe => MaybeOK'
  BY <1>t DEF MaybeOK
<1>c. UNCHANGED <<back, over, mode>> => RestOK'
  BY <1>t DEF RestOK
<1>d. UNCHANGED run => RunOK'
  BY <1>t DEF RunOK
<1>e. UNCHANGED hook => HookOK'
  BY <1>t DEF HookOK
<1>f. UNCHANGED flag => FlagOK'
  BY <1>t DEF FlagOK
<1>g. UNCHANGED record => RecordOK'
  BY <1>t DEF RecordOK
<1>h. ASSUME UNCHANGED run, NEW r \in Runs, NEW e \in HookType, hook' = [hook EXCEPT ![r] = e] PROVE HookOK'
  BY <1>t, <1>h DEF HookOK
<1>r. ASSUME NEW r \in Runs, NEW p \in {"none", "launched", "running", "ending", "gone"},
             run' = [run EXCEPT ![r].phase = p]
      PROVE  RunOK'
  BY <1>t, <1>r DEF RunOK, RunType
<1>v. ASSUME NEW r \in Runs, NEW v \in RunType, run' = [run EXCEPT ![r] = v] PROVE RunOK'
  BY <1>t, <1>v DEF RunOK
<1>w. run \in [Runs -> RunType]
  BY <1>t DEF RunOK
<1>1. ASSUME NEW r \in Runs, Begin(r) \/ Resume(r) PROVE TypeOK'
  <2>1. PICK oneShot \in BOOLEAN, resume \in Ids \cup {Nobody} :
            run' = [run EXCEPT ![r].phase = "launched", ![r].launched = TRUE,
                               ![r].oneShot = oneShot, ![r].resume = resume]
    BY <1>1, <1>t DEF Begin, Resume, Launch, RestOK
  <2>2. RunOK'
    <3> DEFINE v == [run[r] EXCEPT !.phase = "launched", !.launched = TRUE, !.oneShot = oneShot, !.resume = resume]
    <3>1. v \in RunType
      BY <1>w DEF RunType
    <3>2. run' = [run EXCEPT ![r] = v]
      BY <1>w, <2>1
    <3> QED
      BY <1>v, <3>1, <3>2
  <2>3. UNCHANGED <<mode, pane, flag, record, hook, maybe, over>> /\ back' \in {back, Nobody}
    BY <1>1 DEF Begin, Resume, Launch
  <2>4. RestOK'
    BY <1>t, <2>3 DEF RestOK
  <2> QED
    BY <1>a, <1>b, <1>e, <1>f, <1>g, <1>p, <2>2, <2>3, <2>4
<1>2. ASSUME NEW r \in Runs, BeginBare(r) PROVE TypeOK'
  <2>1. RunOK'
    <3>1. PICK oneShot \in BOOLEAN : run' = [run EXCEPT ![r].phase = "running", ![r].oneShot = oneShot]
      BY <1>2 DEF BeginBare
    <3> DEFINE v == [run[r] EXCEPT !.phase = "running", !.oneShot = oneShot]
    <3>2. v \in RunType
      BY <1>w DEF RunType
    <3>3. run' = [run EXCEPT ![r] = v]
      BY <1>w, <3>1
    <3> QED
      BY <1>v, <3>2, <3>3
  <2> QED
    BY <1>2, <1>a, <1>b, <1>c, <1>e, <1>f, <1>g, <1>p, <2>1 DEF BeginBare
<1>3. ASSUME NEW r \in Runs, Register(r) PROVE TypeOK'
  <2>1. RunOK'
    BY <1>3, <1>r DEF Register, Replace
  <2>2. PaneOK'
    <3>1. run[r].oneShot \in BOOLEAN /\ run[r].resume \in Ids \cup {Nobody}
      BY <1>t DEF RunOK, RunType
    <3>2. LetGo(pane) \in PaneType
      BY <1>t, LetGoType DEF PaneOK
    <3>3. pane' = [LetGo(pane) EXCEPT !.agent = TRUE, !.run = r, !.oneShot = run[r].oneShot,
                                      !.resume = run[r].resume]
      BY <1>3 DEF Register, Replace
    <3>4. pane' \in PaneType /\ pane'.run = r
      BY <3>1, <3>2, <3>3 DEF PaneType
    <3> QED
      BY <3>4, NobodyIsNone DEF PaneOK
  <2>3. FlagOK'
    BY <1>3, <1>t, FlagTypes DEF Register, FlagOK, States
  <2> QED
    BY <1>3, <1>b, <1>c, <1>e, <1>g, <1>p, <2>1, <2>2, <2>3 DEF Register
<1>4. ASSUME NEW r \in Runs, RegisterLate(r) \/ FinishLate(r) PROVE TypeOK'
  <2>1. RunOK'
    BY <1>4, <1>r DEF RegisterLate, FinishLate, Over
  <2> QED
    BY <1>4, <1>a, <1>b, <1>c, <1>e, <1>f, <1>g, <1>p, <2>1 DEF RegisterLate, FinishLate
<1>5. ASSUME NEW r \in Runs, Exit(r) \/ Kill(r) PROVE TypeOK'
  <2>1. PICK failed \in BOOLEAN, killed \in BOOLEAN : Dies(r, failed, killed)
    BY <1>5 DEF Exit, Kill
  <2>2. RunOK'
    <3> DEFINE phase == IF run[r].launched THEN "ending" ELSE "gone"
               v == [run[r] EXCEPT !.phase = phase, !.failed = failed, !.killed = killed]
    <3>1. phase \in {"ending", "gone"}
      OBVIOUS
    <3>2. run' = [run EXCEPT ![r] = v]
      BY <1>w, <2>1 DEF Dies
    <3> HIDE DEF phase
    <3>3. v \in RunType
      BY <1>w, <3>1 DEF RunType
    <3> QED
      BY <1>v, <3>2, <3>3
  <2>3. run[r].session \in Ids \cup {Nobody}
    BY <1>t DEF RunOK, RunType
  <2>4. RestOK'
    BY <1>t, <2>1, <2>3 DEF Dies, RestOK, Ended
  <2> QED
    BY <1>a, <1>b, <1>e, <1>f, <1>g, <1>p, <2>1, <2>2, <2>4 DEF Dies
<1>6. ASSUME NEW r \in Runs, NEW e \in HookType, Send(r, e), over' \subseteq Ids, RunOK' PROVE TypeOK'
  <2>1. HookOK'
    BY <1>6, <1>t DEF Send, HookOK
  <2>2. RestOK'
    BY <1>6, <1>t DEF Send, RestOK
  <2> QED
    BY <1>6, <1>a, <1>b, <1>f, <1>g, <1>p, <2>1, <2>2 DEF Send
<1>7. ASSUME NEW r \in Runs, NEW s \in Ids, SendStart(r, s) PROVE TypeOK'
  <2>1. RunOK'
    BY <1>7, <1>t DEF SendStart, RunOK, RunType
  <2>2. Event("start", s, Nobody, "none") \in HookType
    BY DEF Event, HookType
  <2> QED
    BY <1>7, <1>t, <1>6, <2>1, <2>2 DEF SendStart, RestOK
<1>8. ASSUME NEW r \in Runs, NEW t \in Tools \cup {Nobody}, SendAsk(r, t) \/ SendToolEnd(r, t) PROVE TypeOK'
  <2>1. RunOK'
    <3>1. run[r].asked \cup {t} \subseteq Tools \cup {Nobody} /\ run[r].asked \ {t} \subseteq Tools \cup {Nobody}
      BY <1>t DEF RunOK, RunType
    <3>2. PICK A \in SUBSET (Tools \cup {Nobody}) : run' = [run EXCEPT ![r].asked = A]
      <4>1. CASE SendAsk(r, t)
        <5>1. run' = [run EXCEPT ![r].asked = run[r].asked \cup {t}]
          BY <4>1 DEF SendAsk
        <5> QED
          BY <3>1, <5>1
      <4>2. CASE SendToolEnd(r, t)
        <5>1. run' = [run EXCEPT ![r].asked = run[r].asked \ {t}]
          BY <4>2 DEF SendToolEnd
        <5> QED
          BY <3>1, <5>1
      <4> QED
        BY <1>8, <4>1, <4>2
    <3> QED
      BY <1>t, <3>2 DEF RunOK, RunType
  <2>2. run[r].session \in Ids \cup {Nobody}
    BY <1>t DEF RunOK, RunType
  <2>3. \A k \in {"ask", "toolEnd"} : Event(k, run[r].session, t, "none") \in HookType
    BY <2>2 DEF Event, HookType
  <2> QED
    BY <1>8, <1>t, <1>6, <2>1, <2>3 DEF SendAsk, SendToolEnd, RestOK
<1>9. ASSUME NEW r \in Runs, SendWorking(r) \/ SendTurnEnd(r) PROVE TypeOK'
  <2>1. run[r].session \in Ids \cup {Nobody}
    BY <1>t DEF RunOK, RunType
  <2>2. \A k \in {"working", "turnEnd"} : Event(k, run[r].session, Nobody, "none") \in HookType
    BY <2>1 DEF Event, HookType
  <2> QED
    BY <1>9, <1>t, <1>d, <1>6, <2>2 DEF SendWorking, SendTurnEnd, RestOK
<1>10. ASSUME NEW r \in Runs, SendEnd(r) PROVE TypeOK'
  <2>1. run[r].session \in Ids \cup {Nobody}
    BY <1>t DEF RunOK, RunType
  <2>2. \A end \in {"exited", "unknown"} : Event("end", run[r].session, Nobody, end) \in HookType
    BY <2>1 DEF Event, HookType
  <2>3. RunOK'
    <3> DEFINE v == [run[r] EXCEPT !.session = Nobody, !.resume = Nobody, !.asked = {}]
    <3>1. v \in RunType
      BY <1>w DEF RunType
    <3>2. run' = [run EXCEPT ![r] = v]
      BY <1>w, <1>10 DEF SendEnd
    <3> QED
      BY <1>v, <3>1, <3>2
  <2>4. over' \subseteq Ids
    BY <1>10, <1>t, <2>1 DEF SendEnd, RestOK, Ended
  <2>5. PICK e \in HookType : Send(r, e)
    BY <1>10, <2>2 DEF SendEnd
  <2> QED
    BY <1>6, <2>3, <2>4, <2>5
<1>11. ASSUME NEW r \in Runs, Lose(r) PROVE TypeOK'
  BY <1>11, <1>a, <1>b, <1>c, <1>d, <1>f, <1>g, <1>h, <1>p, NoHookType DEF Lose
<1>12. ASSUME NEW r \in Runs, Finish(r) PROVE TypeOK'
  <2>1. RunOK'
    BY <1>12, <1>r DEF Finish, Over
  <2>2. CASE pane.run # r
    BY <1>12, <1>a, <1>b, <1>c, <1>e, <1>f, <1>g, <1>p, <2>1, <2>2 DEF Finish
  <2>3. CASE pane.run = r
    <3>1. pane.session \in Ids \cup {Nobody} /\ LetGo(pane) \in PaneType /\ pane \in PaneType
      BY <1>t, LetGoType DEF PaneOK, PaneType
    <3>2. PaneOK'
      <4>1. PICK p \in PaneType : pane' = [p EXCEPT !.run = Nobody, !.oneShot = FALSE, !.resume = Nobody]
        BY <1>12, <2>3, <3>1 DEF Finish
      <4> QED
        BY <4>1 DEF PaneOK, PaneType
    <3>3. FlagOK'
      <4>1. flag' \in {flag, [state |-> "done", owned |-> FALSE], Idle}
        BY <1>12, <2>3, Zenon DEF Finish
      <4> QED
        <5>1. [state |-> "done", owned |-> FALSE] \in FlagType
          BY DEF FlagType, States
        <5> QED
          BY <1>t, <4>1, <5>1, FlagTypes DEF FlagOK
    <3>4. RecordOK'
      BY <1>12, <1>t, <2>3, <3>1, MarkedType DEF Finish, RecordOK
    <3>5. RestOK'
      BY <1>12, <1>t, <2>3, <3>1 DEF Finish, RestOK, Ended
    <3> QED
      BY <1>12, <1>b, <1>e, <1>p, <2>1, <3>2, <3>3, <3>4, <3>5 DEF Finish
  <2> QED
    BY <2>2, <2>3
<1>13. CASE ResumeGone
  <2>1. PaneOK'
    BY <1>13, <1>t DEF ResumeGone, PaneOK, PaneType
  <2>2. RecordOK'
    BY <1>13, <1>t DEF ResumeGone, RecordOK, RecordType
  <2>3. RestOK'
    BY <1>13, <1>t DEF ResumeGone, RestOK, Ended
  <2> QED
    BY <1>13, <1>b, <1>d, <1>e, <1>f, <1>p, <2>1, <2>2, <2>3 DEF ResumeGone
<1>14. CASE SweepList
  <2>1. MaybeOK'
    <3>1. pane.session \in Ids \cup {Nobody} /\ maybe' = <<pane.session>>
      BY <1>14, <1>t DEF SweepList, PaneOK, PaneType
    <3> QED
      BY <3>1 DEF MaybeOK
  <2> QED
    BY <1>14, <1>a, <1>c, <1>d, <1>e, <1>f, <1>g, <1>p, <2>1 DEF SweepList
<1>15. CASE SweepAgents
  <2>1. MaybeOK'
    BY <1>15 DEF SweepAgents, MaybeOK
  <2>2. UNCHANGED <<mode, flag, run, hook, back, over>>
    BY <1>15 DEF SweepAgents
  <2>3. CASE UNCHANGED <<pane, record>>
    BY <1>a, <1>c, <1>d, <1>e, <1>f, <1>g, <1>p, <2>1, <2>2, <2>3
  <2>4. CASE pane' = LetGo(pane) /\ record' = Marked(maybe[1], "unknown")
    <3>1. PICK s \in Ids \cup {Nobody} : maybe = <<s>>
      BY <1>15, <1>t DEF SweepAgents, MaybeOK
    <3>2. RecordOK'
      BY <1>t, <2>4, <3>1, MarkedType DEF RecordOK
    <3>3. PaneOK'
      BY <1>t, <2>4, LetGoType DEF PaneOK
    <3> QED
      BY <1>c, <1>d, <1>e, <1>f, <1>p, <2>1, <2>2, <3>2, <3>3
  <2> QED
    BY <1>15, <2>3, <2>4 DEF SweepAgents
<1>16. CASE FlagStep
  <2>1. FlagOK'
    BY <1>16, <1>t, FlagTypes DEF FlagStep, Seen, Sweep, FlagRead, FlagCleared, FlagOK
  <2>2. UNCHANGED <<mode, pane, record, run, hook, maybe, back, over>>
    BY <1>16 DEF FlagStep, Seen, Sweep, FlagRead, FlagCleared
  <2> QED
    BY <1>a, <1>b, <1>c, <1>d, <1>e, <1>g, <1>p, <2>1, <2>2
<1>17. CASE Restart
  <2>1. RunOK'
    <3>1. run' = [r \in Runs |-> IF run[r].phase = "none" THEN run[r] ELSE [run[r] EXCEPT !.phase = "gone"]]
      BY <1>17 DEF Restart
    <3>2. \A r \in Runs : [run[r] EXCEPT !.phase = "gone"] \in RunType
      BY <1>w DEF RunType
    <3> QED
      BY <1>w, <3>1, <3>2 DEF RunOK
  <2>2. HookOK'
    BY <1>17, NoHookType DEF Restart, HookOK
  <2>3. PaneOK' /\ FlagOK'
    BY <1>17, FreeType, FlagTypes DEF Restart, PaneOK, FlagOK
  <2>4. RestOK' /\ MaybeOK'
    BY <1>17, <1>t DEF Restart, RestOK, PaneOK, PaneType, MaybeOK
  <2>5. RecordOK'
    <3>1. PICK heard : record' = [s \in Ids |-> IF s \in heard THEN Marked(s, "unknown")[s] ELSE record[s]]
      BY <1>17 DEF Restart
    <3>2. \A s \in Ids : Marked(s, "unknown") \in RecordType
      BY <1>t, MarkedType DEF RecordOK
    <3> QED
      BY <1>t, <3>1, <3>2 DEF RecordOK, RecordType
  <2> QED
    BY <1>p, <2>1, <2>2, <2>3, <2>4, <2>5
<1>18. ASSUME NEW r \in Runs, Apply(r) PROVE TypeOK'
  <2>1. PaneOK' /\ FlagOK' /\ RecordOK' /\ HookOK'
    BY <1>18, <1>t, <1>h, ApplyEffect, NoHookType DEF PaneOK, FlagOK, RecordOK
  <2> QED
    BY <1>18, <1>b, <1>c, <1>d, <1>p, <2>1, ApplyEffect
<1>19. ASSUME NEW r \in Runs, Answered(r) PROVE TypeOK'
  <2>1. RunOK'
    <3>1. run' = [run EXCEPT ![r] = [run[r] EXCEPT !.asked = run[r].asked \ {Nobody}]]
      BY <1>19, <1>w DEF Answered
    <3>2. [run[r] EXCEPT !.asked = run[r].asked \ {Nobody}] \in RunType
      BY <1>w DEF RunType
    <3> QED
      BY <1>v, <3>1, <3>2
  <2> QED
    BY <1>19, <1>a, <1>b, <1>c, <1>e, <1>f, <1>g, <1>p, <2>1 DEF Answered
<1>20. CASE UNCHANGED vars
  BY <1>20, <1>a, <1>b, <1>c, <1>d, <1>e, <1>f, <1>g, <1>p DEF vars
<1> QED
  BY <1>1, <1>2, <1>3, <1>4, <1>5, <1>7, <1>8, <1>9, <1>10, <1>11, <1>12, <1>13, <1>14, <1>15, <1>16,
     <1>17, <1>18, <1>19, <1>20, ModeTypes DEF Next, FlagStep
-----------------------------------------------------------------------------
(* What the steps do to the runs and the hooks. *)

\* A run is taken up; one goes on to its next phase.
Took(r) ==
    /\ run[r].phase = "none" /\ AtPrompt /\ run'[r].phase \in {"launched", "running"}
    /\ IF run'[r].phase = "launched" THEN run'[r].launched ELSE ~run'[r].launched
    /\ run'[r].session = run[r].session /\ run'[r].asked = run[r].asked
    /\ UNCHANGED <<mode, pane, hook>>
Went(r) ==
    /\ \/ run[r].phase = "launched" /\ run'[r].phase = "running"
       \/ run[r].phase = "running" /\ run'[r].phase = (IF run[r].launched THEN "ending" ELSE "gone")
             /\ (May("late") \/ hook[r] = NoHook)
       \/ run[r].phase = "ending" /\ run'[r].phase = "gone"
    /\ run'[r].launched = run[r].launched /\ run'[r].oneShot = run[r].oneShot
    /\ run'[r].session = run[r].session /\ run'[r].asked = run[r].asked
    /\ UNCHANGED <<mode, hook, back>>

LEMMA Began ==
  ASSUME TypeOK, HookInv, NEW r \in Runs, Begin(r) \/ Resume(r) \/ BeginBare(r)
  PROVE  /\ Took(r) /\ \A q \in Runs \ {r} : run'[q] = run[q]
         /\ UNCHANGED <<flag, record, over>> /\ back' = Nobody
         /\ May("bare") \/ run'[r].launched
<1>1. run[r] \in RunType /\ run \in [Runs -> RunType]
  BY Types
<1>2. CASE Begin(r) \/ Resume(r)
  <2>1. PICK oneShot, resume :
            run' = [run EXCEPT ![r].phase = "launched", ![r].launched = TRUE,
                               ![r].oneShot = oneShot, ![r].resume = resume]
    BY <1>2 DEF Begin, Resume, Launch
  <2>2. /\ run'[r].phase = "launched" /\ run'[r].launched
        /\ run'[r].session = run[r].session /\ run'[r].asked = run[r].asked
        /\ \A q \in Runs \ {r} : run'[q] = run[q]
    BY <1>1, <2>1 DEF RunType
  <2> QED
    BY <1>2, <2>2 DEF Begin, Resume, Launch, Took
<1>3. CASE BeginBare(r)
  <2>1. PICK oneShot \in BOOLEAN : run' = [run EXCEPT ![r].phase = "running", ![r].oneShot = oneShot]
    BY <1>3 DEF BeginBare
  <2>2. /\ run'[r].phase = "running" /\ run'[r].launched = run[r].launched
        /\ run'[r].session = run[r].session /\ run'[r].asked = run[r].asked
        /\ \A q \in Runs \ {r} : run'[q] = run[q]
    BY <1>1, <2>1 DEF RunType
  <2> QED
    BY <1>1, <1>3, <2>2 DEF BeginBare, Took, May, HookInv, RunType
<1> QED
  BY <1>2, <1>3

LEMMA Moved ==
  ASSUME TypeOK, NEW r \in Runs,
         Register(r) \/ RegisterLate(r) \/ Exit(r) \/ Kill(r) \/ Finish(r) \/ FinishLate(r)
  PROVE  Went(r) /\ \A q \in Runs \ {r} : run'[q] = run[q]
<1>1. run[r] \in RunType /\ run \in [Runs -> RunType]
  BY Types
<1>2. ASSUME NEW p, run' = [run EXCEPT ![r].phase = p]
      PROVE  /\ run'[r].phase = p /\ run'[r].launched = run[r].launched /\ run'[r].oneShot = run[r].oneShot
             /\ run'[r].session = run[r].session /\ run'[r].asked = run[r].asked
             /\ \A q \in Runs \ {r} : run'[q] = run[q]
  BY <1>1, <1>2 DEF RunType
<1>3. CASE Register(r)
  <2>1. run' = [run EXCEPT ![r].phase = "running"]
    BY <1>3 DEF Register, Replace
  <2> QED
    BY <1>2, <1>3, <2>1 DEF Register, Went
<1>4. CASE RegisterLate(r)
  <2>1. run' = [run EXCEPT ![r].phase = "running"]
    BY <1>4 DEF RegisterLate
  <2> QED
    BY <1>2, <1>4, <2>1 DEF RegisterLate, Went
<1>5. CASE Finish(r)
  <2>1. run' = [run EXCEPT ![r].phase = "gone"]
    BY <1>5 DEF Finish, Over
  <2>2. run[r].phase = "ending" /\ UNCHANGED <<mode, hook, back>>
    BY <1>5 DEF Finish
  <2> QED
    BY <1>2, <2>1, <2>2 DEF Went
<1>6. CASE FinishLate(r)
  <2>1. run' = [run EXCEPT ![r].phase = "gone"]
    BY <1>6 DEF FinishLate, Over
  <2> QED
    BY <1>2, <1>6, <2>1 DEF FinishLate, Went
<1>7. CASE Exit(r) \/ Kill(r)
  <2>1. PICK failed \in BOOLEAN, killed \in BOOLEAN : Dies(r, failed, killed)
    BY <1>7 DEF Exit, Kill
  <2> DEFINE p == IF run[r].launched THEN "ending" ELSE "gone"
  <2>2. run' = [run EXCEPT ![r].phase = p, ![r].failed = failed, ![r].killed = killed]
    BY <2>1 DEF Dies
  <2>3. /\ run[r].phase = "running" /\ (May("late") \/ hook[r] = NoHook)
        /\ UNCHANGED <<mode, hook, back>>
    BY <2>1 DEF Dies, Running, May
  <2> HIDE DEF p
  <2>4. /\ run'[r].phase = p /\ run'[r].launched = run[r].launched /\ run'[r].oneShot = run[r].oneShot
        /\ run'[r].session = run[r].session /\ run'[r].asked = run[r].asked
        /\ \A q \in Runs \ {r} : run'[q] = run[q]
    BY <1>1, <2>2 DEF RunType
  <2> QED
    BY <2>3, <2>4 DEF Went, p
<1> QED
  BY <1>3, <1>4, <1>5, <1>6, <1>7

\* An agent sends a hook about the session it is in, begins or leaves.
Sent(r) ==
    LET e == hook'[r] IN
    /\ Running(r) /\ hook[r] = NoHook
    /\ e.kind \in {"start", "working", "ask", "toolEnd", "turnEnd", "end"} /\ e.session \in Ids
    /\ e.kind = "start" => /\ run[r].session = Nobody /\ run'[r].asked = {} /\ over' = over \ {e.session}
                           /\ run[r].oneShot \/ e.session \in Sessions
    /\ e.kind # "start" => run[r].session = e.session
    /\ run'[r].session = IF e.kind = "end" THEN Nobody ELSE e.session
    /\ e.kind = "end" => run'[r].asked = {}
    /\ e.end # "none" <=> e.kind = "end"
    /\ run[r].oneShot => e.end # "exited"
    /\ e.kind \in {"working", "turnEnd"} => run[r].asked = {} /\ run'[r].asked = {}
    /\ e.kind = "ask" => /\ e.tool \in Tools \cup {Nobody} /\ run'[r].asked = run[r].asked \cup {e.tool}
                         /\ Cardinality(run[r].asked) < MaxAsks /\ ~run[r].oneShot
    /\ e.kind = "toolEnd" => e.tool \in Tools /\ run'[r].asked = run[r].asked \ {e.tool}
    /\ e.kind \notin {"start", "end"} => over' = over
    /\ over' \subseteq over \cup (IF e.end = "exited" THEN {e.session} ELSE {})
    /\ run'[r].phase = run[r].phase /\ run'[r].launched = run[r].launched /\ run'[r].oneShot = run[r].oneShot
    /\ UNCHANGED <<mode, pane, flag, record, maybe, back>>

Sends(r) ==
    \/ \E s \in Ids : SendStart(r, s)
    \/ \E t \in mode.tools \cup {Nobody} : SendAsk(r, t)
    \/ \E t \in mode.tools : SendToolEnd(r, t)
    \/ SendWorking(r) \/ SendTurnEnd(r) \/ SendEnd(r)

LEMMA SentHook ==
  ASSUME TypeOK, NEW r \in Runs, NEW e, Send(r, e)
  PROVE  /\ Running(r) /\ hook[r] = NoHook /\ hook'[r] = e /\ \A q \in Runs \ {r} : hook'[q] = hook[q]
         /\ UNCHANGED <<mode, pane, flag, record, maybe, back>>
  BY Types DEF Send

LEMMA SentEffect ==
  ASSUME TypeOK, HookInv, NEW r \in Runs, Sends(r)
  PROVE  Sent(r) /\ \A q \in Runs \ {r} : run'[q] = run[q] /\ hook'[q] = hook[q]
<1>1. run[r] \in RunType /\ run \in [Runs -> RunType] /\ run[r].session \in Ids \cup {Nobody}
  BY Types DEF RunType
<1>2. ASSUME NEW s \in Ids, SendStart(r, s)
      PROVE  Sent(r) /\ \A q \in Runs \ {r} : run'[q] = run[q] /\ hook'[q] = hook[q]
  <2>1. Send(r, Event("start", s, Nobody, "none"))
    BY <1>2 DEF SendStart
  <2>2. /\ hook'[r].kind = "start" /\ hook'[r].session = s /\ hook'[r].end = "none"
        /\ Running(r) /\ hook[r] = NoHook /\ \A q \in Runs \ {r} : hook'[q] = hook[q]
        /\ UNCHANGED <<mode, pane, flag, record, maybe, back>>
    <3>1. /\ hook'[r] = Event("start", s, Nobody, "none")
          /\ Running(r) /\ hook[r] = NoHook /\ \A q \in Runs \ {r} : hook'[q] = hook[q]
          /\ UNCHANGED <<mode, pane, flag, record, maybe, back>>
      BY <2>1, SentHook
    <3> QED
      BY <3>1 DEF Event
  <2>3. run' = [run EXCEPT ![r].session = s] /\ run[r].session = Nobody /\ over' = over \ {s}
    BY <1>2 DEF SendStart
  <2>4. run[r].oneShot \/ s \in Sessions
    BY <1>2, ModeTypes DEF SendStart
  <2>5. run[r].asked = {}
    BY <2>3 DEF HookInv
  <2>6. /\ run'[r].session = s /\ run'[r].asked = run[r].asked /\ run'[r].phase = run[r].phase
        /\ run'[r].launched = run[r].launched /\ run'[r].oneShot = run[r].oneShot
        /\ \A q \in Runs \ {r} : run'[q] = run[q]
    BY <1>1, <2>3 DEF RunType
  <2> QED
    BY <2>2, <2>3, <2>4, <2>5, <2>6 DEF Sent
<1>3. ASSUME NEW t \in Tools \cup {Nobody}, SendAsk(r, t)
      PROVE  Sent(r) /\ \A q \in Runs \ {r} : run'[q] = run[q] /\ hook'[q] = hook[q]
  <2>1. Send(r, Event("ask", run[r].session, t, "none"))
    BY <1>3 DEF SendAsk
  <2>2. /\ hook'[r].kind = "ask" /\ hook'[r].session = run[r].session /\ hook'[r].end = "none" /\ hook'[r].tool = t
        /\ Running(r) /\ hook[r] = NoHook /\ \A q \in Runs \ {r} : hook'[q] = hook[q]
        /\ UNCHANGED <<mode, pane, flag, record, maybe, back>>
    <3>1. /\ hook'[r] = Event("ask", run[r].session, t, "none")
          /\ Running(r) /\ hook[r] = NoHook /\ \A q \in Runs \ {r} : hook'[q] = hook[q]
          /\ UNCHANGED <<mode, pane, flag, record, maybe, back>>
      BY <2>1, SentHook
    <3> QED
      BY <3>1 DEF Event
  <2>3. /\ run' = [run EXCEPT ![r].asked = run[r].asked \cup {t}] /\ run[r].session # Nobody /\ over' = over
        /\ ~run[r].oneShot /\ Cardinality(run[r].asked) < MaxAsks
    BY <1>3 DEF SendAsk
  <2>6. /\ run'[r].session = run[r].session /\ run'[r].asked = run[r].asked \cup {t} /\ run'[r].phase = run[r].phase
        /\ run'[r].launched = run[r].launched /\ run'[r].oneShot = run[r].oneShot
        /\ \A q \in Runs \ {r} : run'[q] = run[q]
    BY <1>1, <2>3 DEF RunType
  <2> QED
    BY <1>1, <2>2, <2>3, <2>6 DEF Sent
<1>4. ASSUME NEW t \in Tools, SendToolEnd(r, t)
      PROVE  Sent(r) /\ \A q \in Runs \ {r} : run'[q] = run[q] /\ hook'[q] = hook[q]
  <2>1. Send(r, Event("toolEnd", run[r].session, t, "none"))
    BY <1>4 DEF SendToolEnd
  <2>2. /\ hook'[r].kind = "toolEnd" /\ hook'[r].session = run[r].session /\ hook'[r].end = "none" /\ hook'[r].tool = t
        /\ Running(r) /\ hook[r] = NoHook /\ \A q \in Runs \ {r} : hook'[q] = hook[q]
        /\ UNCHANGED <<mode, pane, flag, record, maybe, back>>
    <3>1. /\ hook'[r] = Event("toolEnd", run[r].session, t, "none")
          /\ Running(r) /\ hook[r] = NoHook /\ \A q \in Runs \ {r} : hook'[q] = hook[q]
          /\ UNCHANGED <<mode, pane, flag, record, maybe, back>>
      BY <2>1, SentHook
    <3> QED
      BY <3>1 DEF Event
  <2>3. run' = [run EXCEPT ![r].asked = run[r].asked \ {t}] /\ run[r].session # Nobody /\ over' = over
    BY <1>4 DEF SendToolEnd
  <2>6. /\ run'[r].session = run[r].session /\ run'[r].asked = run[r].asked \ {t} /\ run'[r].phase = run[r].phase
        /\ run'[r].launched = run[r].launched /\ run'[r].oneShot = run[r].oneShot
        /\ \A q \in Runs \ {r} : run'[q] = run[q]
    BY <1>1, <2>3 DEF RunType
  <2> QED
    BY <1>1, <2>2, <2>3, <2>6 DEF Sent
<1>5. CASE SendWorking(r) \/ SendTurnEnd(r)
  <2>1. PICK k \in {"working", "turnEnd"} : Send(r, Event(k, run[r].session, Nobody, "none"))
    BY <1>5 DEF SendWorking, SendTurnEnd
  <2>2. /\ hook'[r].kind = k /\ hook'[r].session = run[r].session /\ hook'[r].end = "none"
        /\ Running(r) /\ hook[r] = NoHook /\ \A q \in Runs \ {r} : hook'[q] = hook[q]
        /\ UNCHANGED <<mode, pane, flag, record, maybe, back>>
    <3>1. /\ hook'[r] = Event(k, run[r].session, Nobody, "none")
          /\ Running(r) /\ hook[r] = NoHook /\ \A q \in Runs \ {r} : hook'[q] = hook[q]
          /\ UNCHANGED <<mode, pane, flag, record, maybe, back>>
      BY <2>1, SentHook
    <3> QED
      BY <3>1 DEF Event
  <2>3. run' = run /\ run[r].session # Nobody /\ over' = over /\ run[r].asked = {}
    BY <1>5 DEF SendWorking, SendTurnEnd
  <2> QED
    BY <1>1, <2>2, <2>3 DEF Sent
<1>6. CASE SendEnd(r)
  <2>1. PICK end \in {"exited", "unknown"} :
            /\ run[r].oneShot => end = "unknown"
            /\ Send(r, Event("end", run[r].session, Nobody, end))
            /\ over' = IF end = "exited" THEN Ended(run[r].session) ELSE over
    BY <1>6 DEF SendEnd
  <2>2. /\ hook'[r].kind = "end" /\ hook'[r].session = run[r].session /\ hook'[r].end = end
        /\ Running(r) /\ hook[r] = NoHook /\ \A q \in Runs \ {r} : hook'[q] = hook[q]
        /\ UNCHANGED <<mode, pane, flag, record, maybe, back>>
    <3>1. /\ hook'[r] = Event("end", run[r].session, Nobody, end)
          /\ Running(r) /\ hook[r] = NoHook /\ \A q \in Runs \ {r} : hook'[q] = hook[q]
          /\ UNCHANGED <<mode, pane, flag, record, maybe, back>>
      BY <2>1, SentHook
    <3> QED
      BY <3>1 DEF Event
  <2>3. run' = [run EXCEPT ![r].session = Nobody, ![r].resume = Nobody, ![r].asked = {}] /\ run[r].session # Nobody
    BY <1>6 DEF SendEnd
  <2>4. over' \subseteq over \cup (IF end = "exited" THEN {run[r].session} ELSE {})
    BY <2>1, <2>3 DEF Ended
  <2>6. /\ run'[r].session = Nobody /\ run'[r].asked = {} /\ run'[r].phase = run[r].phase
        /\ run'[r].launched = run[r].launched /\ run'[r].oneShot = run[r].oneShot
        /\ \A q \in Runs \ {r} : run'[q] = run[q]
    BY <1>1, <2>3 DEF RunType
  <2> QED
    BY <1>1, <2>1, <2>2, <2>3, <2>4, <2>6 DEF Sent
<1> QED
  BY <1>2, <1>3, <1>4, <1>5, <1>6, ModeTypes DEF Sends

\* An agent's decision is made without a hook.
Resolved(r) ==
    /\ Running(r) /\ Nobody \in run[r].asked /\ run'[r].asked = run[r].asked \ {Nobody}
    /\ run'[r].phase = run[r].phase /\ run'[r].launched = run[r].launched /\ run'[r].oneShot = run[r].oneShot
    /\ run'[r].session = run[r].session /\ run'[r].killed = run[r].killed
    /\ UNCHANGED <<mode, pane, flag, record, hook, maybe, back, over>>

LEMMA AnsweredEffect ==
  ASSUME TypeOK, NEW r \in Runs, Answered(r)
  PROVE  Resolved(r) /\ \A q \in Runs \ {r} : run'[q] = run[q]
<1>1. run \in [Runs -> RunType] /\ run[r] \in RunType
  BY Types
<1>2. run' = [run EXCEPT ![r].asked = run[r].asked \ {Nobody}]
  BY DEF Answered
<1>3. /\ run'[r].asked = run[r].asked \ {Nobody} /\ run'[r].killed = run[r].killed
      /\ run'[r].phase = run[r].phase /\ run'[r].launched = run[r].launched /\ run'[r].oneShot = run[r].oneShot
      /\ run'[r].session = run[r].session /\ \A q \in Runs \ {r} : run'[q] = run[q]
  BY <1>1, <1>2 DEF RunType
<1> QED
  BY <1>3 DEF Answered, Resolved

\* A hook is heard, or lost.
Heeded(r) ==
    /\ hook[r] # NoHook /\ hook'[r] = NoHook /\ \A q \in Runs \ {r} : hook'[q] = hook[q]
    /\ UNCHANGED <<mode, run, maybe, back, over>>

LEMMA HeededEffect ==
  ASSUME TypeOK, NEW r \in Runs, Apply(r) \/ Lose(r)
  PROVE  Heeded(r)
  BY Types DEF Apply, Lose, Heeded

\* The server goes with what ran in it.
Gone ==
    /\ \A r \in Runs :
           /\ run'[r].phase = (IF run[r].phase = "none" THEN "none" ELSE "gone") /\ hook'[r] = NoHook
           /\ run'[r].launched = run[r].launched /\ run'[r].oneShot = run[r].oneShot
           /\ run'[r].session = run[r].session /\ run'[r].asked = run[r].asked
    /\ pane' = Free /\ flag' = Idle /\ back' = pane.revive
    /\ UNCHANGED <<mode, over>>

LEMMA RestartEffect ==
  ASSUME TypeOK, Restart PROVE Gone
<1>1. run' = [r \in Runs |-> IF run[r].phase = "none" THEN run[r] ELSE [run[r] EXCEPT !.phase = "gone"]]
  BY DEF Restart
<1>2. run \in [Runs -> RunType]
  BY Types
<1>3. ASSUME NEW r \in Runs
      PROVE  /\ run'[r].phase = (IF run[r].phase = "none" THEN "none" ELSE "gone")
             /\ run'[r].launched = run[r].launched /\ run'[r].oneShot = run[r].oneShot
             /\ run'[r].session = run[r].session /\ run'[r].asked = run[r].asked
  BY <1>1, <1>2 DEF RunType
<1> QED
  BY <1>3 DEF Restart, Gone

\* The steps, by what they do to runs and hooks.
LEMMA Steps ==
  ASSUME TypeOK, HookInv, [Next]_vars
  PROVE  \/ \E r \in Runs :
                \/ Begin(r) \/ Resume(r) \/ BeginBare(r)
                \/ Register(r) \/ RegisterLate(r) \/ Exit(r) \/ Kill(r) \/ Finish(r) \/ FinishLate(r)
                \/ Sends(r) \/ Answered(r) \/ Apply(r) \/ Lose(r)
         \/ Restart
         \/ (ResumeGone \/ SweepList \/ SweepAgents \/ FlagStep \/ UNCHANGED vars)
  BY DEF Next, Sends, FlagStep
-----------------------------------------------------------------------------
(* Runs and hooks. *)

LEMMA HookInit == Init => HookInv
<1> SUFFICES ASSUME Init, NEW r \in Runs
    PROVE  hook[r] = NoHook /\ run[r].session = Nobody /\ run[r].asked = {} /\ ~run[r].launched
           /\ run[r].phase = "none"
  BY DEF HookInv
<1> QED
  BY DEF Init

\* What launchers do to the pane: a new run's has it, one that ends lets go.
LEMMA RegisterEffect ==
  ASSUME TypeOK, NEW r \in Runs, Register(r)
  PROVE  /\ pane'.run = r /\ pane'.oneShot = run[r].oneShot /\ pane'.session = Nobody /\ pane'.revive = Nobody
         /\ UNCHANGED <<record, over>>
<1> DEFINE Let == LetGo(pane)
<1>1. Let \in PaneType /\ Let.session = Nobody /\ Let.revive = Nobody
  BY Types, LetGoType
<1>2. pane' = [Let EXCEPT !.agent = TRUE, !.run = r, !.oneShot = run[r].oneShot, !.resume = run[r].resume]
  BY DEF Register, Replace
<1> HIDE DEF Let
<1>3. pane'.run = r /\ pane'.oneShot = run[r].oneShot /\ pane'.session = Nobody /\ pane'.revive = Nobody
  BY <1>1, <1>2 DEF PaneType
<1> QED
  BY <1>3 DEF Register

LEMMA FinishEffect ==
  ASSUME TypeOK, NEW r \in Runs, Finish(r)
  PROVE  /\ pane.run # r => UNCHANGED <<pane, flag, record, over>>
         /\ pane.run = r =>
               /\ pane'.run = Nobody /\ ~pane'.oneShot
               /\ IF run[r].killed THEN pane'.session = pane.session /\ pane'.revive = pane.revive /\ over' = over
                  ELSE pane'.session = Nobody /\ pane'.revive = Nobody
<1>1. CASE pane.run # r
  BY <1>1 DEF Finish
<1>2. CASE pane.run = r
  <2> DEFINE Let == IF run[r].killed THEN pane ELSE LetGo(pane)
  <2>1. /\ Let \in PaneType /\ Let.session = (IF run[r].killed THEN pane.session ELSE Nobody)
        /\ Let.revive = (IF run[r].killed THEN pane.revive ELSE Nobody)
    BY Types, LetGoType
  <2>2. pane' = [Let EXCEPT !.run = Nobody, !.oneShot = FALSE, !.resume = Nobody]
    BY <1>2 DEF Finish
  <2> HIDE DEF Let
  <2>3. /\ pane'.run = Nobody /\ ~pane'.oneShot
        /\ pane'.session = Let.session /\ pane'.revive = Let.revive
    BY <2>1, <2>2 DEF PaneType
  <2>4. run[r].killed => over' = over
    BY <1>2 DEF Finish
  <2> QED
    BY <1>2, <2>1, <2>3, <2>4
<1> QED
  BY <1>1, <1>2

\* Those that do not get the lock, and agents that end, leave it alone.
LEMMA LateEffect ==
  ASSUME NEW r \in Runs, RegisterLate(r) \/ FinishLate(r) \/ Exit(r) \/ Kill(r)
  PROVE  UNCHANGED <<pane, flag, record>>
  BY DEF RegisterLate, FinishLate, Exit, Kill, Dies

\* The other steps take sessions from the pane, never its run.
LEMMA OthersPane ==
  ASSUME TypeOK, ResumeGone \/ SweepList \/ SweepAgents \/ FlagStep \/ UNCHANGED vars
  PROVE  /\ pane'.run = pane.run /\ pane'.oneShot = pane.oneShot /\ pane'.revive \in {pane.revive, Nobody}
         /\ back' \in {back, Nobody}
         /\ pane'.session = pane.session \/ (pane'.session = Nobody /\ pane'.revive = Nobody)
         /\ pane'.session = pane.session \/ \A r \in Runs : ~Running(r)
<1>1. pane \in PaneType
  BY Types
<1>2. CASE ResumeGone
  BY <1>1, <1>2 DEF ResumeGone, PaneType
<1>3. CASE SweepAgents
  BY <1>1, <1>3, LetGoType DEF SweepAgents
<1>4. CASE SweepList \/ FlagStep \/ UNCHANGED vars
  BY <1>4 DEF SweepList, FlagStep, Seen, Sweep, FlagRead, FlagCleared, vars
<1> QED
  BY <1>2, <1>3, <1>4

\* The steps that leave both alone.
LEMMA Others ==
  ASSUME ResumeGone \/ SweepList \/ SweepAgents \/ FlagStep \/ UNCHANGED vars
  PROVE  UNCHANGED <<mode, run, hook>>
  BY DEF ResumeGone, SweepList, SweepAgents, FlagStep, Seen, Sweep, FlagRead, FlagCleared, vars

LEMMA ModeFixed == ASSUME TypeOK, HookInv, [Next]_vars PROVE UNCHANGED mode
  BY Steps, Began, Moved, SentEffect, HeededEffect, AnsweredEffect, RestartEffect, Others
     DEF Took, Went, Sent, Heeded, Resolved, Gone

LEMMA HookNext ==
  ASSUME TypeOK, HookInv, [Next]_vars PROVE HookInv'
<1>n. NoHook.kind = "none" /\ NoHook.end = "none"
  BY NoHookType
<1>1. ASSUME NEW r \in Runs, Begin(r) \/ Resume(r) \/ BeginBare(r) PROVE HookInv'
  <2>1. Took(r) /\ \A q \in Runs \ {r} : run'[q] = run[q]
    BY <1>1, Began
  <2>2. run[r].phase = "none" /\ run[r].session = Nobody /\ hook[r] = NoHook
    BY <2>1 DEF Took, HookInv
  <2> QED
    BY <2>1, <2>2 DEF Took, HookInv
<1>2. ASSUME NEW r \in Runs,
             Register(r) \/ RegisterLate(r) \/ Exit(r) \/ Kill(r) \/ Finish(r) \/ FinishLate(r)
      PROVE  HookInv'
  <2>1. Went(r) /\ \A q \in Runs \ {r} : run'[q] = run[q]
    BY <1>2, Moved
  <2>2. run'[r].phase \notin {"none", "launched"} /\ (run'[r].phase = "ending" => run'[r].launched)
    BY <2>1 DEF Went
  <2> QED
    BY <2>1, <2>2 DEF Went, HookInv
<1>3. ASSUME NEW r \in Runs, Sends(r) PROVE HookInv'
  <2>1. Sent(r) /\ \A q \in Runs \ {r} : run'[q] = run[q] /\ hook'[q] = hook[q]
    BY <1>3, SentEffect
  <2>2. ASSUME NEW q \in Runs \ {r}
        PROVE  run'[q] = run[q] /\ hook'[q] = hook[q]
    BY <2>1
  <2>3. /\ run'[r].phase = "running" /\ run'[r].oneShot = run[r].oneShot
        /\ hook'[r].kind # "none" /\ hook'[r].session \in Ids
        /\ run'[r].session = IF hook'[r].kind = "end" THEN Nobody ELSE hook'[r].session
        /\ hook'[r].end # "none" <=> hook'[r].kind = "end"
        /\ run[r].oneShot => hook'[r].end # "exited"
        /\ hook'[r].kind = "ask" => hook'[r].tool \in Tools \cup {Nobody}
        /\ hook'[r].kind = "end" => run'[r].asked = {}
    BY <2>1 DEF Sent, Running
  <2>4. run'[r].session = Nobody => run'[r].asked = {}
    BY <2>3, NobodyIsNone
  <2> QED
    BY <2>2, <2>3, <2>4 DEF HookInv
<1>4. ASSUME NEW r \in Runs, Apply(r) \/ Lose(r) PROVE HookInv'
  <2>1. Heeded(r)
    BY <1>4, HeededEffect
  <2> QED
    BY <2>1 DEF Heeded, HookInv
<1>5. CASE Restart
  <2>1. Gone
    BY <1>5, RestartEffect
  <2>2. ASSUME NEW r \in Runs
        PROVE  /\ hook'[r] = NoHook /\ run'[r].session = run[r].session /\ run'[r].asked = run[r].asked
               /\ run'[r].launched = run[r].launched
               /\ run'[r].phase = (IF run[r].phase = "none" THEN "none" ELSE "gone")
    BY <2>1 DEF Gone
  <2> QED
    BY <2>2 DEF HookInv
<1>6. CASE ResumeGone \/ SweepList \/ SweepAgents \/ FlagStep \/ UNCHANGED vars
  BY <1>6, Others DEF HookInv
<1>7. ASSUME NEW r \in Runs, Answered(r) PROVE HookInv'
  BY <1>7, AnsweredEffect DEF Resolved, HookInv
<1> QED
  BY <1>1, <1>2, <1>3, <1>4, <1>5, <1>6, <1>7, Steps

\* The variables keep their types, and hooks name the sessions of their runs.
LEMMA Base == Spec => [](TypeOK /\ HookInv)
<1>1. TypeOK /\ HookInv /\ [Next]_vars => (TypeOK /\ HookInv)'
  BY TypeNext, HookNext
<1> QED
  BY <1>1, TypeInit, HookInit, PTL DEF Spec

\* The variables take the values the code gives them, whatever may happen, and
\* only a launched run marks the pane as one-turn.
THEOREM TypeCorrect == Spec => []TypeOK
  BY Base, PTL
-----------------------------------------------------------------------------
(* One-turn runs. *)

LEMMA OneShotInit == Init => OneShotInv
<1> SUFFICES ASSUME Init PROVE OneShotInv
  OBVIOUS
<1>1. pane.revive = Nobody /\ back = Nobody
  BY FreeType DEF Init
<1>2. \A r \in Runs : run[r].session = Nobody /\ hook[r].session = Nobody
  BY NoHookType DEF Init
<1> QED
  BY <1>1, <1>2, NobodyIsNone DEF OneShotInv, OneShotStays

LEMMA OneShotNext ==
  ASSUME TypeOK, HookInv, TurnInv, OneShotInv, [Next]_vars PROVE OneShotInv'
<1> DEFINE RunsOK == \A r \in Runs : run[r].oneShot \/ (run[r].session \notin OneShots /\ hook[r].session \notin OneShots)
<1>r. RunsOK
  BY DEF OneShotInv
<1>n. Nobody \notin OneShots /\ Sessions \cap OneShots = {} /\ NoHook.session = Nobody
  BY SessionAssumption, NoHookType
<1>o. OneShotStays
  BY DEF OneShotInv
<1>q. RunsOK' /\ OneShotStays' => OneShotInv'
  BY DEF OneShotInv
<1>m. UNCHANGED mode
  BY ModeFixed
<1>p. ASSUME pane'.revive \in {pane.revive, Nobody}, back' \in {back, Nobody, pane.revive} PROVE OneShotStays'
  BY <1>p, <1>o, <1>n, <1>m DEF OneShotStays
<1>1. ASSUME NEW r \in Runs, Begin(r) \/ Resume(r) \/ BeginBare(r) PROVE OneShotInv'
  <2>1. Took(r) /\ back' = Nobody /\ \A q \in Runs \ {r} : run'[q] = run[q]
    BY <1>1, Began
  <2>2. run'[r].session = Nobody /\ hook'[r] = NoHook
    BY <2>1 DEF Took, HookInv
  <2>3. UNCHANGED <<pane, hook>>
    BY <2>1 DEF Took
  <2>4. RunsOK'
    BY <1>r, <1>n, <2>1, <2>2, <2>3
  <2> QED
    BY <1>p, <1>q, <2>1, <2>3, <2>4
<1>2. ASSUME NEW r \in Runs,
             Register(r) \/ RegisterLate(r) \/ Exit(r) \/ Kill(r) \/ Finish(r) \/ FinishLate(r)
      PROVE  OneShotInv'
  <2>1. Went(r) /\ \A q \in Runs \ {r} : run'[q] = run[q]
    BY <1>2, Moved
  <2>2. RunsOK'
    BY <1>r, <2>1 DEF Went
  <2>3. pane'.revive \in {pane.revive, Nobody}
    BY <1>2, RegisterEffect, FinishEffect, LateEffect
  <2> QED
    BY <1>p, <1>q, <2>1, <2>2, <2>3 DEF Went
<1>3. ASSUME NEW r \in Runs, Sends(r) PROVE OneShotInv'
  <2>1. Sent(r) /\ \A q \in Runs \ {r} : run'[q] = run[q] /\ hook'[q] = hook[q]
    BY <1>3, SentEffect
  <2>2. run'[r].oneShot \/ (run'[r].session \notin OneShots /\ hook'[r].session \notin OneShots)
    BY <1>r, <1>n, <2>1 DEF Sent
  <2>3. RunsOK'
    BY <1>r, <2>1, <2>2
  <2> QED
    BY <1>p, <1>q, <2>1, <2>3 DEF Sent
<1>4. ASSUME NEW r \in Runs, Apply(r) \/ Lose(r) PROVE OneShotInv'
  <2>1. Heeded(r)
    BY <1>4, HeededEffect
  <2>2. RunsOK'
    BY <1>r, <1>n, <2>1 DEF Heeded
  <2>3. CASE Lose(r)
    BY <1>p, <1>q, <2>2, <2>3 DEF Lose
  <2>4. CASE Apply(r)
    <3> DEFINE s == hook[r].session
    <3>1. s \in Ids /\ hook[r] # NoHook
      BY <2>4, HookType1 DEF Apply
    <3>2. pane'.revive \in {pane.revive, Nobody} \/ (~OneShotHook(r) /\ pane'.revive = s)
      <4>1. CASE ApplyOneShot(hook[r])
        BY <3>1, <4>1, OneShotEffect
      <4>2. CASE ApplyStart(r, hook[r])
        BY <3>1, <4>2, StartEffect DEF Command
      <4>3. CASE ApplyEnd(hook[r])
        BY <3>1, <4>3, EndEffect
      <4>4. CASE ApplyOther(r)
        <5>1. pane'.revive = Adopted(r, s).revive
          BY <3>1, <4>4, OtherEffect
        <5>2. Adopted(r, s).revive = pane.revive \/ (~OneShotHook(r) /\ Adopted(r, s).revive = s)
          BY <3>1, AdoptedPane
        <5> QED
          BY <5>1, <5>2
      <4> QED
        BY <2>4, <4>1, <4>2, <4>3, <4>4, ApplyEffect
    <3>3. ~May("late") => Running(r)
      BY <3>1 DEF TurnInv
    <3>4. OneShotStays'
      BY <1>r, <1>o, <1>n, <1>m, <2>1, <3>2, <3>3 DEF OneShotStays, OneShotHook, May, Heeded
    <3> QED
      BY <1>q, <2>2, <3>4
  <2> QED
    BY <1>4, <2>3, <2>4
<1>5. CASE Restart
  <2>1. Gone
    BY <1>5, RestartEffect
  <2>2. RunsOK'
    BY <1>r, <1>n, <2>1 DEF Gone
  <2> QED
    BY <1>p, <1>q, <2>1, <2>2, FreeType DEF Gone
<1>6. CASE ResumeGone \/ SweepList \/ SweepAgents \/ FlagStep \/ UNCHANGED vars
  <2>1. UNCHANGED <<run, hook>>
    BY <1>6, Others
  <2>2. RunsOK'
    BY <1>r, <2>1
  <2>3. pane'.revive \in {pane.revive, Nobody} /\ back' \in {back, Nobody}
    BY <1>6, OthersPane
  <2> QED
    BY <1>p, <1>q, <2>2, <2>3
<1>7. ASSUME NEW r \in Runs, Answered(r) PROVE OneShotInv'
  <2>1. Resolved(r) /\ \A q \in Runs \ {r} : run'[q] = run[q]
    BY <1>7, AnsweredEffect
  <2>2. RunsOK'
    BY <1>r, <2>1 DEF Resolved
  <2> QED
    BY <1>p, <1>q, <2>1, <2>2 DEF Resolved
<1> QED
  BY <1>1, <1>2, <1>3, <1>4, <1>5, <1>6, <1>7, Steps
-----------------------------------------------------------------------------
(* The pane's run, and whose turn it is. *)

LEMMA PaneNext ==
  ASSUME TypeOK, HookInv, PaneInv, [Next]_vars PROVE PaneInv'
<1>t. pane.run \in Runs \cup {Nobody}
  BY Types DEF PaneType
<1>1. ASSUME NEW r \in Runs, Begin(r) \/ Resume(r) \/ BeginBare(r) PROVE PaneInv'
  <2>1. Took(r) /\ \A q \in Runs \ {r} : run'[q] = run[q]
    BY <1>1, Began
  <2>2. pane.run # r
    BY <2>1, NobodyIsNone DEF Took, PaneInv
  <2> QED
    BY <1>t, <2>1, <2>2 DEF Took, PaneInv
<1>2. ASSUME NEW r \in Runs,
             Register(r) \/ RegisterLate(r) \/ Exit(r) \/ Kill(r) \/ Finish(r) \/ FinishLate(r)
      PROVE  PaneInv'
  <2>1. Went(r) /\ \A q \in Runs \ {r} : run'[q] = run[q]
    BY <1>2, Moved
  <2>2. CASE Register(r)
    <3>1. pane'.run = r /\ pane'.oneShot = run[r].oneShot /\ run[r].phase = "launched"
      BY <2>2, RegisterEffect DEF Register
    <3>2. run[r].launched
      BY <3>1 DEF HookInv
    <3> QED
      BY <2>1, <3>1, <3>2 DEF Went, PaneInv
  <2>3. CASE Finish(r)
    BY <1>t, <2>1, <2>3, FinishEffect DEF Went, PaneInv
  <2>4. CASE RegisterLate(r) \/ FinishLate(r) \/ Exit(r) \/ Kill(r)
    BY <1>t, <2>1, <2>4, LateEffect DEF Went, PaneInv
  <2> QED
    BY <1>2, <2>2, <2>3, <2>4
<1>3. ASSUME NEW r \in Runs, Sends(r) PROVE PaneInv'
  <2>1. Sent(r) /\ \A q \in Runs \ {r} : run'[q] = run[q]
    BY <1>3, SentEffect
  <2> QED
    BY <1>t, <2>1 DEF Sent, PaneInv
<1>4. ASSUME NEW r \in Runs, Apply(r) \/ Lose(r) PROVE PaneInv'
  <2>1. UNCHANGED run
    BY <1>4, HeededEffect DEF Heeded
  <2>2. pane'.run = pane.run /\ pane'.oneShot = pane.oneShot
    BY <1>4, ApplyEffect DEF Lose
  <2> QED
    BY <2>1, <2>2 DEF PaneInv
<1>5. CASE Restart
  BY <1>5, RestartEffect, FreeType DEF Gone, PaneInv
<1>6. CASE ResumeGone \/ SweepList \/ SweepAgents \/ FlagStep \/ UNCHANGED vars
  BY <1>6, Others, OthersPane DEF PaneInv
<1>7. ASSUME NEW r \in Runs, Answered(r) PROVE PaneInv'
  BY <1>t, <1>7, AnsweredEffect DEF Resolved, PaneInv
<1> QED
  BY <1>1, <1>2, <1>3, <1>4, <1>5, <1>6, <1>7, Steps

LEMMA TurnNext ==
  ASSUME TypeOK, HookInv, BackInv, TurnInv, [Next]_vars PROVE BackInv' /\ TurnInv'
<1>1. ASSUME NEW r \in Runs, Begin(r) \/ Resume(r) \/ BeginBare(r) PROVE BackInv' /\ TurnInv'
  <2>1. Took(r) /\ back' = Nobody /\ \A q \in Runs \ {r} : run'[q] = run[q]
    BY <1>1, Began
  <2>2. UNCHANGED <<hook, mode>> /\ run[r].phase = "none" /\ AtPrompt
    BY <2>1 DEF Took
  <2>3. hook[r] = NoHook
    BY <2>2 DEF HookInv
  <2>4. ~May("jobs") => \A q \in Runs : ~Active(q)
    BY <2>2 DEF AtPrompt, May, Active
  <2>5. ASSUME ~May("jobs")', NEW q \in Runs, Active(q)' PROVE q = r
    BY <2>1, <2>2, <2>4, <2>5 DEF May, Active
  <2>6. ASSUME ~May("late")', NEW q \in Runs, hook'[q] # NoHook PROVE Running(q)'
    BY <2>1, <2>2, <2>3, <2>6 DEF May, Running, TurnInv
  <2>7. TurnInv'
    BY <2>5, <2>6 DEF TurnInv
  <2> QED
    BY <2>1, <2>7 DEF BackInv
<1>2. ASSUME NEW r \in Runs,
             Register(r) \/ RegisterLate(r) \/ Exit(r) \/ Kill(r) \/ Finish(r) \/ FinishLate(r)
      PROVE  BackInv' /\ TurnInv'
  <2>1. Went(r) /\ \A q \in Runs \ {r} : run'[q] = run[q]
    BY <1>2, Moved
  <2>2. Active(r) /\ UNCHANGED <<hook, mode, back>>
    BY <2>1 DEF Went, Active
  <2>3. back = Nobody
    BY <2>2 DEF BackInv, Quiet, Active
  <2>4. ASSUME NEW q \in Runs, Active(q)' PROVE Active(q)
    BY <2>1, <2>2, <2>4 DEF Active
  <2>5. ASSUME ~May("late"), NEW q \in Runs, hook[q] # NoHook PROVE Running(q)'
    <3>1. Running(q)
      BY <2>5 DEF TurnInv
    <3>2. q # r
      BY <2>1, <2>5, <3>1 DEF Went, Running
    <3> QED
      BY <2>1, <3>1, <3>2 DEF Running
  <2>6. TurnInv'
    BY <2>2, <2>4, <2>5 DEF TurnInv, May
  <2> QED
    BY <2>2, <2>3, <2>6 DEF BackInv
<1>3. ASSUME NEW r \in Runs, Sends(r) PROVE BackInv' /\ TurnInv'
  <2>1. Sent(r) /\ \A q \in Runs \ {r} : run'[q] = run[q] /\ hook'[q] = hook[q]
    BY <1>3, SentEffect
  <2>2. Running(r) /\ Running(r)' /\ UNCHANGED <<mode, back>>
    BY <2>1 DEF Sent, Running
  <2>3. back = Nobody
    BY <2>2 DEF BackInv, Quiet, Running
  <2>4. ASSUME NEW q \in Runs PROVE Active(q)' = Active(q) /\ (Running(q) => Running(q)')
    BY <2>1, <2>2 DEF Active, Running
  <2>5. TurnInv'
    BY <2>1, <2>2, <2>4 DEF TurnInv, May
  <2> QED
    BY <2>2, <2>3, <2>5 DEF BackInv
<1>4. ASSUME NEW r \in Runs, Apply(r) \/ Lose(r) PROVE BackInv' /\ TurnInv'
  <2>1. Heeded(r)
    BY <1>4, HeededEffect
  <2>2. \A q \in Runs : hook'[q] # NoHook => hook[q] # NoHook
    BY <2>1 DEF Heeded
  <2> QED
    BY <2>1, <2>2 DEF Heeded, BackInv, Quiet, TurnInv, May, Active, Running
<1>5. CASE Restart
  <2>1. Gone
    BY <1>5, RestartEffect
  <2>2. Quiet'
    BY <2>1 DEF Gone, Quiet
  <2> QED
    BY <2>2 DEF BackInv, TurnInv, Quiet, Active
<1>6. CASE ResumeGone \/ SweepList \/ SweepAgents \/ FlagStep \/ UNCHANGED vars
  <2>1. UNCHANGED <<run, hook, mode>> /\ back' \in {back, Nobody}
    BY <1>6, Others, OthersPane
  <2> QED
    BY <2>1 DEF BackInv, Quiet, TurnInv, May, Active, Running
<1>7. ASSUME NEW r \in Runs, Answered(r) PROVE BackInv' /\ TurnInv'
  <2>1. Resolved(r) /\ (\A q \in Runs \ {r} : run'[q] = run[q]) /\ Running(r)
    BY <1>7, AnsweredEffect DEF Resolved
  <2>2. back' = Nobody
    BY <2>1 DEF BackInv, Quiet, Running, Resolved
  <2>3. \A q \in Runs : Active(q)' = Active(q) /\ Running(q)' = Running(q)
    BY <2>1 DEF Resolved, Active, Running
  <2> QED
    BY <2>1, <2>2, <2>3 DEF Resolved, BackInv, TurnInv, May
<1> QED
  BY <1>1, <1>2, <1>3, <1>4, <1>5, <1>6, <1>7, Steps

LEMMA TurnedNext ==
  ASSUME TypeOK, HookInv, PaneInv, TurnInv, TurnedInv, [Next]_vars PROVE TurnedInv'
<1>t. pane.run \in Runs \cup {Nobody}
  BY Types DEF PaneType
<1>1. ASSUME NEW r \in Runs, Begin(r) \/ Resume(r) \/ BeginBare(r) PROVE TurnedInv'
  <2>1. Took(r) /\ \A q \in Runs \ {r} : run'[q] = run[q]
    BY <1>1, Began
  <2>2. pane.run # r
    BY <2>1, NobodyIsNone DEF Took, PaneInv
  <2> QED
    BY <1>t, <2>1, <2>2 DEF Took, TurnedInv, May
<1>2. ASSUME NEW r \in Runs,
             Register(r) \/ RegisterLate(r) \/ Exit(r) \/ Kill(r) \/ Finish(r) \/ FinishLate(r)
      PROVE  TurnedInv'
  <2>1. Went(r) /\ \A q \in Runs \ {r} : run'[q] = run[q]
    BY <1>2, Moved
  <2>2. ASSUME NEW q \in Runs, run'[q].phase # "gone" PROVE run[q].phase # "gone"
    BY <2>1, <2>2 DEF Went
  <2>3. CASE Register(r)
    BY <2>3, RegisterEffect DEF TurnedInv
  <2>4. CASE Finish(r)
    BY <1>t, <2>1, <2>2, <2>4, FinishEffect DEF Went, TurnedInv, May
  <2>5. CASE RegisterLate(r) \/ FinishLate(r) \/ Exit(r) \/ Kill(r)
    BY <1>t, <2>1, <2>2, <2>5, LateEffect DEF Went, TurnedInv, May
  <2> QED
    BY <1>2, <2>3, <2>4, <2>5
<1>3. ASSUME NEW r \in Runs, Sends(r) PROVE TurnedInv'
  <2>1. Sent(r) /\ \A q \in Runs \ {r} : run'[q] = run[q]
    BY <1>3, SentEffect
  <2> QED
    BY <1>t, <2>1 DEF Sent, TurnedInv, May
<1>4. ASSUME NEW r \in Runs, Apply(r) PROVE TurnedInv'
  <2>1. /\ UNCHANGED <<run, mode>> /\ pane'.run = pane.run /\ pane'.oneShot = pane.oneShot
        /\ hook[r] # NoHook
    BY <1>4, ApplyEffect
  <2>2. CASE Turned(r)
    <3>1. pane'.revive = pane.revive
      BY <1>4, <2>1, <2>2, ApplyEffect, OneShotEffect
    <3> QED
      BY <2>1, <3>1 DEF TurnedInv, May
  <2>3. CASE ~Turned(r)
    <3> SUFFICES ASSUME ~May("jobs"), ~May("late"), pane.run # Nobody, pane.oneShot, run[pane.run].phase # "gone"
                 PROVE  FALSE
      BY <2>1 DEF TurnedInv, May
    <3>1. Running(r) /\ Active(r)
      BY <2>1 DEF TurnInv, Running, Active
    <3>2. Active(pane.run) /\ run[pane.run].launched
      BY <1>t DEF PaneInv, Active
    <3>3. pane.run = r
      BY <1>t, <3>1, <3>2 DEF TurnInv
    <3> QED
      BY <2>3, <3>2, <3>3 DEF Turned
  <2> QED
    BY <2>2, <2>3
<1>5. CASE Restart
  BY <1>5, RestartEffect, FreeType DEF Gone, TurnedInv
<1>6. CASE ResumeGone \/ SweepList \/ SweepAgents \/ FlagStep \/ UNCHANGED vars
  BY <1>6, Others, OthersPane DEF TurnedInv, May
<1>7. ASSUME NEW r \in Runs, Lose(r) PROVE TurnedInv'
  BY <1>7 DEF Lose, TurnedInv, May
<1>8. ASSUME NEW r \in Runs, Answered(r) PROVE TurnedInv'
  BY <1>t, <1>8, AnsweredEffect DEF Resolved, TurnedInv, May
<1> QED
  BY <1>1, <1>2, <1>3, <1>4, <1>5, <1>6, <1>7, <1>8, Steps

LEMMA LaunchedNext ==
  ASSUME TypeOK, HookInv, TurnInv, LaunchedInv, [Next]_vars PROVE LaunchedInv'
<1>1. ASSUME NEW r \in Runs, Begin(r) \/ Resume(r) \/ BeginBare(r) PROVE LaunchedInv'
  <2>1. Took(r) /\ (May("bare") \/ run'[r].launched) /\ \A q \in Runs \ {r} : run'[q] = run[q]
    BY <1>1, Began
  <2>2. ~(run'[r].phase \in {"running", "ending"} /\ run'[r].launched)
    BY <2>1 DEF Took
  <2> QED
    BY <2>1, <2>2 DEF Took, LaunchedInv, May
<1>2. ASSUME NEW r \in Runs,
             Register(r) \/ RegisterLate(r) \/ Exit(r) \/ Kill(r) \/ Finish(r) \/ FinishLate(r)
      PROVE  LaunchedInv'
  <2>1. Went(r) /\ \A q \in Runs \ {r} : run'[q] = run[q]
    BY <1>2, Moved
  <2>2. UNCHANGED mode /\ Active(r) /\ run[r].phase # "none" /\ run'[r].launched = run[r].launched
    BY <2>1 DEF Went, Active
  <2>3. ~May("bare") => \A q \in Runs : run'[q].phase # "none" => run'[q].launched
    BY <2>1, <2>2 DEF LaunchedInv
  <2>4. ASSUME ~May("jobs"), ~May("busy"), NEW q \in Runs, run'[q].phase \in {"running", "ending"}, run'[q].launched
        PROVE  pane'.run = q
    <3>1. q = r
      BY <2>1, <2>2, <2>4 DEF TurnInv, Active
    <3>2. ~RegisterLate(r) /\ ~FinishLate(r)
      BY <2>4 DEF RegisterLate, FinishLate, May
    <3>3. CASE Register(r)
      BY <3>1, <3>3, RegisterEffect
    <3>4. CASE Exit(r) \/ Kill(r)
      <4>1. run[r].phase = "running" /\ UNCHANGED pane
        BY <3>4 DEF Exit, Kill, Dies, Running
      <4> QED
        BY <2>2, <2>4, <3>1, <4>1 DEF LaunchedInv
    <3>5. CASE Finish(r)
      <4>1. run[r].phase = "ending"
        BY <3>5 DEF Finish
      <4> QED
        BY <2>1, <2>4, <3>1, <4>1 DEF Went
    <3> QED
      BY <1>2, <3>2, <3>3, <3>4, <3>5
  <2> QED
    BY <2>2, <2>3, <2>4 DEF LaunchedInv, May
<1>3. ASSUME NEW r \in Runs, Sends(r) PROVE LaunchedInv'
  <2>1. Sent(r) /\ \A q \in Runs \ {r} : run'[q] = run[q]
    BY <1>3, SentEffect
  <2> QED
    BY <2>1 DEF Sent, LaunchedInv, May
<1>4. ASSUME NEW r \in Runs, Apply(r) \/ Lose(r) PROVE LaunchedInv'
  <2>1. UNCHANGED <<run, mode>> /\ pane'.run = pane.run
    BY <1>4, ApplyEffect DEF Lose
  <2> QED
    BY <2>1 DEF LaunchedInv, May
<1>5. CASE Restart
  <2>1. Gone
    BY <1>5, RestartEffect
  <2> QED
    BY <2>1 DEF Gone, LaunchedInv, May
<1>6. CASE ResumeGone \/ SweepList \/ SweepAgents \/ FlagStep \/ UNCHANGED vars
  BY <1>6, Others, OthersPane DEF LaunchedInv, May
<1>7. ASSUME NEW r \in Runs, Answered(r) PROVE LaunchedInv'
  BY <1>7, AnsweredEffect DEF Resolved, LaunchedInv, May
<1> QED
  BY <1>1, <1>2, <1>3, <1>4, <1>5, <1>6, <1>7, Steps
-----------------------------------------------------------------------------
(* The session of the pane, and the one it resumes. *)

\* One agent at a time: a step of an agent or a launcher is no other's.
LEMMA OneAgent ==
  ASSUME TurnInv, ~May("jobs"), ~May("late"), NEW r \in Runs, Active(r), NEW q \in Runs \ {r}
  PROVE  ~Running(q) /\ hook[q] = NoHook
<1>1. ~Running(q)
  BY DEF TurnInv, Active, Running
<1> QED
  BY <1>1 DEF TurnInv

LEMMA SessionNext ==
  ASSUME TypeOK, HookInv, TurnInv, SessionInv, [Next]_vars PROVE SessionInv'
<1> DEFINE OK(r) == /\ Running(r) /\ run[r].session # Nobody /\ Heard(r) => pane.session = run[r].session
                    /\ hook[r].kind \notin {"none", "start"} => pane.session = hook[r].session
<1>o. SessionInv = (InTime => \A r \in Runs : OK(r)) /\ SessionInv' = (InTime' => \A r \in Runs : OK(r)')
  BY DEF SessionInv
<1>m. UNCHANGED mode
  BY ModeFixed
<1> SUFFICES ASSUME InTime, NEW q \in Runs PROVE OK(q)'
  BY <1>o, <1>m DEF InTime, May
<1>q. OK(q) /\ ~May("jobs") /\ ~May("late") /\ ~May("lost")
  BY <1>o DEF InTime
<1>n. NoHook.kind = "none"
  BY NoHookType
<1> HIDE DEF OK
<1>u. run'[q] = run[q] /\ hook'[q] = hook[q] /\ pane'.session = pane.session => OK(q)'
  BY <1>q DEF OK, Running, Heard
<1>v. (~Running(q)' \/ run'[q].session = Nobody) /\ hook'[q] = NoHook => OK(q)'
  BY <1>n DEF OK, Running
<1>1. ASSUME NEW r \in Runs, Begin(r) \/ Resume(r) \/ BeginBare(r) PROVE OK(q)'
  <2>1. Took(r) /\ \A x \in Runs \ {r} : run'[x] = run[x]
    BY <1>1, Began
  <2>2. run'[r].session = Nobody /\ hook'[r] = NoHook /\ UNCHANGED <<hook, pane>>
    BY <2>1 DEF Took, HookInv
  <2> QED
    BY <1>u, <1>v, <2>1, <2>2
<1>2. ASSUME NEW r \in Runs,
             Register(r) \/ RegisterLate(r) \/ Exit(r) \/ Kill(r) \/ Finish(r) \/ FinishLate(r)
      PROVE  OK(q)'
  <2>1. Went(r) /\ (\A x \in Runs \ {r} : run'[x] = run[x]) /\ Active(r)
    BY <1>2, Moved DEF Went, Active
  <2>2. CASE q # r
    <3>1. ~Running(q) /\ hook[q] = NoHook
      BY <1>q, <2>1, <2>2, OneAgent
    <3> QED
      BY <1>v, <2>1, <2>2, <3>1 DEF Went, Running
  <2>3. CASE q = r
    <3>1. hook[r] = NoHook
      BY <1>q, <2>1 DEF Went, TurnInv, Running
    <3>2. ~Running(r)' \/ run'[r].session = Nobody
      BY <2>1 DEF Went, Running, HookInv
    <3> QED
      BY <1>v, <2>1, <2>3, <3>1, <3>2 DEF Went
  <2> QED
    BY <2>2, <2>3
<1>3. ASSUME NEW r \in Runs, Sends(r) PROVE OK(q)'
  <2>1. Sent(r) /\ \A x \in Runs \ {r} : run'[x] = run[x] /\ hook'[x] = hook[x]
    BY <1>3, SentEffect
  <2>2. pane' = pane
    BY <2>1 DEF Sent
  <2>3. CASE q # r
    BY <1>u, <2>1, <2>2, <2>3
  <2>4. CASE q = r
    <3>1. Running(r) /\ hook[r] = NoHook
      BY <2>1 DEF Sent
    <3>2. run[r].session # Nobody => pane.session = run[r].session
      BY <1>q, <1>n, <2>4, <3>1 DEF OK, Heard
    <3>3. /\ hook'[r].session \in Ids
          /\ hook'[r].kind # "start" => run[r].session = hook'[r].session
          /\ run'[r].session = IF hook'[r].kind = "end" THEN Nobody ELSE hook'[r].session
      BY <2>1 DEF Sent
    <3> QED
      BY <2>2, <2>4, <3>2, <3>3, NobodyIsNone DEF OK, Heard
  <2> QED
    BY <2>3, <2>4
<1>4. ASSUME NEW r \in Runs, Apply(r) PROVE OK(q)'
  <2>1. UNCHANGED run /\ hook[r] # NoHook /\ hook'[r] = NoHook /\ \A x \in Runs \ {r} : hook'[x] = hook[x]
    BY <1>4, HeededEffect, ApplyEffect DEF Heeded
  <2>2. Active(r)
    BY <1>q, <2>1 DEF TurnInv, Running, Active
  <2>3. CASE q # r
    BY <1>q, <1>v, <2>1, <2>2, <2>3, OneAgent DEF Running
  <2>4. CASE q = r
    <3>1. run[r].session = IF hook[r].kind = "end" THEN Nobody ELSE hook[r].session
      BY <2>1 DEF HookInv
    <3>2. hook[r].kind # "end" => pane'.session = hook[r].session
      BY <1>4, <2>1, ApplyEffect, OneShotEffect, StartEffect, OtherEffect
    <3> QED
      BY <1>n, <2>1, <2>4, <3>1, <3>2 DEF OK
  <2> QED
    BY <2>3, <2>4
<1>5. CASE Restart
  BY <1>5, <1>v, RestartEffect DEF Gone, Running
<1>6. CASE ResumeGone \/ SweepList \/ SweepAgents \/ FlagStep \/ UNCHANGED vars
  <2>1. UNCHANGED <<run, hook>> /\ (pane'.session = pane.session \/ \A r \in Runs : ~Running(r))
    BY <1>6, Others, OthersPane
  <2>2. CASE \A r \in Runs : ~Running(r)
    BY <1>q, <1>v, <2>1, <2>2 DEF TurnInv, Running
  <2> QED
    BY <1>u, <2>1, <2>2
<1>7. ASSUME NEW r \in Runs, Lose(r) PROVE OK(q)'
  BY <1>q, <1>7 DEF Lose, May
<1>8. ASSUME NEW r \in Runs, Answered(r) PROVE OK(q)'
  <2>1. Resolved(r) /\ \A x \in Runs \ {r} : run'[x] = run[x]
    BY <1>8, AnsweredEffect
  <2>2. run'[q].phase = run[q].phase /\ run'[q].session = run[q].session /\ UNCHANGED <<hook, pane>>
    BY <2>1 DEF Resolved
  <2> QED
    BY <1>q, <2>2 DEF OK, Running, Heard
<1> QED
  BY <1>1, <1>2, <1>3, <1>4, <1>5, <1>6, <1>7, <1>8, Steps

LEMMA NamesNext ==
  ASSUME TypeOK, HookInv, PaneInv, TurnInv, TurnedInv, LaunchedInv, SessionInv, ReviveNamesSession, [Next]_vars
  PROVE  ReviveNamesSession'
<1>m. UNCHANGED mode
  BY ModeFixed
<1> SUFFICES ASSUME OneWay PROVE pane'.revive \in {Nobody, pane'.session}
  BY <1>m DEF ReviveNamesSession, OneWay
<1>w. ~May("jobs") /\ ~May("late") /\ ~May("slow") /\ (May("lost") => ~May("bare") /\ ~May("busy"))
  BY DEF OneWay, May
<1>r. pane.revive \in {Nobody, pane.session}
  BY DEF ReviveNamesSession
<1>u. UNCHANGED pane => pane'.revive \in {Nobody, pane'.session}
  BY <1>r
<1>1. ASSUME NEW r \in Runs, Begin(r) \/ Resume(r) \/ BeginBare(r) PROVE pane'.revive \in {Nobody, pane'.session}
  BY <1>1, <1>u, Began DEF Took
<1>2. ASSUME NEW r \in Runs,
             Register(r) \/ RegisterLate(r) \/ Exit(r) \/ Kill(r) \/ Finish(r) \/ FinishLate(r)
      PROVE  pane'.revive \in {Nobody, pane'.session}
  <2>1. CASE Finish(r)
    BY <1>r, <1>u, <2>1, FinishEffect
  <2> QED
    BY <1>2, <1>u, <2>1, RegisterEffect, LateEffect
<1>3. ASSUME NEW r \in Runs, Sends(r) \/ Lose(r) PROVE pane'.revive \in {Nobody, pane'.session}
  BY <1>3, <1>u, SentEffect DEF Sent, Lose
<1>4. ASSUME NEW r \in Runs, Apply(r) PROVE pane'.revive \in {Nobody, pane'.session}
  <2> DEFINE s == hook[r].session
  <2>1. hook[r] # NoHook /\ s \in Ids /\ hook[r].kind # "none"
    BY <1>4, ApplyEffect, HookType1
  <2>2. Running(r)
    BY <1>w, <2>1 DEF TurnInv
  <2>3. CASE Turned(r) /\ ApplyOneShot(hook[r])
    <3>1. pane.revive = Nobody
      BY <1>w, <2>2, <2>3, NobodyIsNone DEF TurnedInv, Turned, Running
    <3> QED
      BY <2>1, <2>3, <3>1, OneShotEffect
  <2>4. CASE ApplyStart(r, hook[r])
    BY <2>1, <2>4, StartEffect DEF Command
  <2>5. CASE ApplyEnd(hook[r])
    BY <1>r, <2>1, <2>5, EndEffect
  <2>6. CASE ~Turned(r) /\ hook[r].kind \notin {"start", "end"} /\ ApplyOther(r)
    <3>1. pane'.session = s /\ pane'.revive = Adopted(r, s).revive
      BY <2>1, <2>6, OtherEffect
    <3>2. CASE s = pane.session
      BY <1>r, <2>1, <3>1, <3>2, AdoptedPane
    <3>3. CASE s # pane.session
      <4>1. May("lost")
        BY <1>w, <2>1, <2>6, <3>3 DEF SessionInv, InTime
      <4>2. run[r].launched /\ pane.run = r
        BY <1>w, <2>2, <4>1 DEF LaunchedInv, Running
      <4>3. ~run[r].oneShot
        BY <2>6, <4>2, NobodyIsNone DEF Turned, PaneInv
      <4> QED
        BY <2>1, <3>1, <3>3, <4>3, AdoptedPane DEF OneShotHook
    <3> QED
      BY <3>2, <3>3
  <2> QED
    BY <1>4, <2>3, <2>4, <2>5, <2>6, ApplyEffect
<1>5. CASE Restart
  BY <1>5, RestartEffect, FreeType DEF Gone
<1>6. CASE ResumeGone \/ SweepList \/ SweepAgents \/ FlagStep \/ UNCHANGED vars
  BY <1>6, <1>r, OthersPane
<1>7. ASSUME NEW r \in Runs, Answered(r) PROVE pane'.revive \in {Nobody, pane'.session}
  BY <1>7, <1>u, AnsweredEffect DEF Resolved
<1> QED
  BY <1>1, <1>2, <1>3, <1>4, <1>5, <1>6, <1>7, Steps
-----------------------------------------------------------------------------
(* Sessions that are over. *)

LEMMA DiesEffect ==
  ASSUME TypeOK, NEW r \in Runs, Exit(r) \/ Kill(r)
  PROVE  /\ run[r].phase = "running" /\ UNCHANGED pane
         /\ over' = over \/ (run'[r].phase = "ending" /\ ~run'[r].killed /\ run[r].launched)
<1>1. PICK failed \in BOOLEAN, killed \in BOOLEAN : Dies(r, failed, killed)
  BY DEF Exit, Kill
<1>2. run \in [Runs -> RunType]
  BY Types
<1> DEFINE p == IF run[r].launched THEN "ending" ELSE "gone"
<1>3. run' = [run EXCEPT ![r].phase = p, ![r].failed = failed, ![r].killed = killed]
  BY <1>1 DEF Dies
<1> HIDE DEF p
<1>4. run'[r].phase = p /\ run'[r].killed = killed
  BY <1>2, <1>3 DEF RunType
<1>5. run[r].phase = "running" /\ UNCHANGED pane /\ (over' = over \/ (run[r].launched /\ ~killed))
  BY <1>1 DEF Dies, Running
<1> QED
  BY <1>4, <1>5 DEF p

LEMMA OverNext ==
  ASSUME TypeOK, HookInv, PaneInv, BackInv, TurnInv, LaunchedInv, SessionInv, OverInv, [Next]_vars
  PROVE  OverInv'
<1> DEFINE LastWord(r) == \/ hook[r].kind = "end" /\ hook[r].end = "exited"
                          \/ run[r].phase = "ending" /\ ~run[r].killed /\ pane.run = r
           Begun == \A r \in Runs : hook[r].kind = "start" => hook[r].session \notin over
           Kept == pane.revive \in over => \E r \in Runs : LastWord(r)
<1>m. UNCHANGED mode
  BY ModeFixed
<1> SUFFICES ASSUME mode.ways \subseteq {"bare"} PROVE Begun' /\ Kept'
  BY <1>m DEF OverInv
<1>w. InTime /\ ~May("jobs") /\ ~May("late") /\ ~May("lost") /\ ~May("busy")
  BY DEF May, InTime
<1>i. Begun /\ Kept
  BY DEF OverInv
<1>n. NoHook.kind = "none"
  BY NoHookType
<1>t. Nobody \notin over /\ Nobody \notin over'
  BY Types, NobodyIsNone, TypeNext DEF TypeOK
<1>g. pane'.revive = Nobody => Kept'
  BY <1>t
<1>h. (\A q \in Runs : hook'[q] = NoHook) => Begun'
  BY <1>n
<1>j. ASSUME NEW r \in Runs, Active(r) PROVE \A q \in Runs \ {r} : hook[q] = NoHook /\ ~LastWord(q)
  BY <1>w, <1>n, <1>j, OneAgent DEF TurnInv, Active
<1> HIDE DEF LastWord
<1>1. ASSUME NEW r \in Runs, Begin(r) \/ Resume(r) \/ BeginBare(r) PROVE Begun' /\ Kept'
  <2>1. Took(r) /\ over' = over /\ \A q \in Runs \ {r} : run'[q] = run[q]
    BY <1>1, Began
  <2>2. UNCHANGED <<hook, pane>> /\ ~LastWord(r)
    BY <2>1, <1>n DEF Took, HookInv, LastWord
  <2>3. ASSUME NEW q \in Runs, LastWord(q) PROVE LastWord(q)'
    BY <2>1, <2>2, <2>3 DEF LastWord
  <2> QED
    BY <1>i, <2>1, <2>2, <2>3
<1>2. ASSUME NEW r \in Runs,
             Register(r) \/ RegisterLate(r) \/ Exit(r) \/ Kill(r) \/ Finish(r) \/ FinishLate(r)
      PROVE  Begun' /\ Kept'
  <2>1. Went(r) /\ (\A q \in Runs \ {r} : run'[q] = run[q]) /\ Active(r)
    BY <1>2, Moved DEF Went, Active
  <2>2. hook[r] = NoHook
    BY <1>w, <2>1 DEF Went, TurnInv, Running
  <2>3. \A q \in Runs : hook[q] = NoHook /\ hook'[q] = NoHook
    BY <1>j, <2>1, <2>2 DEF Went
  <2>4. Begun'
    BY <1>h, <2>3
  <2>5. CASE Register(r)
    BY <1>g, <2>4, <2>5, RegisterEffect
  <2>6. CASE Exit(r) \/ Kill(r)
    <3>1. /\ run[r].phase = "running" /\ UNCHANGED pane
          /\ over' = over \/ (run'[r].phase = "ending" /\ ~run'[r].killed /\ run[r].launched)
      BY <2>6, DiesEffect
    <3>2. ~LastWord(r)
      BY <1>n, <2>2, <3>1 DEF LastWord
    <3>3. pane.revive \notin over
      BY <1>i, <1>j, <2>1, <3>2
    <3>4. run[r].launched => pane.run = r
      BY <1>w, <3>1 DEF LaunchedInv
    <3>5. over' = over \/ LastWord(r)'
      BY <3>1, <3>4 DEF LastWord
    <3> QED
      BY <2>4, <3>1, <3>3, <3>5
  <2>7. CASE Finish(r)
    <3>1. CASE pane.run = r /\ ~run[r].killed
      BY <1>g, <2>4, <2>7, <3>1, FinishEffect
    <3>2. CASE ~(pane.run = r /\ ~run[r].killed)
      <4>1. ~LastWord(r)
        BY <1>n, <2>2, <3>2 DEF LastWord
      <4>2. pane.revive \notin over
        BY <1>i, <1>j, <2>1, <4>1
      <4>3. pane'.revive = pane.revive /\ over' = over
        BY <2>7, <3>2, FinishEffect
      <4> QED
        BY <2>4, <4>2, <4>3
    <3> QED
      BY <3>1, <3>2
  <2>8. ~RegisterLate(r) /\ ~FinishLate(r)
    BY <1>w DEF RegisterLate, FinishLate, May
  <2> QED
    BY <1>2, <2>5, <2>6, <2>7, <2>8
<1>3. ASSUME NEW r \in Runs, Sends(r) PROVE Begun' /\ Kept'
  <2>1. Sent(r) /\ \A q \in Runs \ {r} : run'[q] = run[q] /\ hook'[q] = hook[q]
    BY <1>3, SentEffect
  <2>2. Active(r) /\ run[r].phase = "running" /\ hook[r] = NoHook /\ pane' = pane
    BY <2>1 DEF Sent, Running, Active
  <2>3. \A q \in Runs \ {r} : hook'[q] = NoHook
    BY <1>j, <2>1, <2>2
  <2>4. Begun'
    BY <1>n, <2>1, <2>3 DEF Sent
  <2>5. pane.revive \notin over
    <3>1. ~LastWord(r)
      BY <1>n, <2>2 DEF LastWord
    <3> QED
      BY <1>i, <1>j, <2>2, <3>1
  <2>6. pane'.revive \in over' => LastWord(r)'
    BY <2>1, <2>2, <2>5 DEF Sent, LastWord
  <2> QED
    BY <2>4, <2>6
<1>4. ASSUME NEW r \in Runs, Apply(r) PROVE Begun' /\ Kept'
  <2> DEFINE s == hook[r].session
  <2>1. hook[r] # NoHook /\ s \in Ids /\ over' = over /\ hook[r].kind # "none"
    BY <1>4, ApplyEffect, HookType1
  <2>2. Active(r) /\ run[r].phase = "running" /\ Heeded(r)
    BY <1>4, <1>w, <2>1, HeededEffect DEF TurnInv, Running, Active
  <2>3. Begun'
    BY <1>h, <1>j, <2>2 DEF Heeded
  <2>4. hook[r].end = "exited" \/ pane.revive \notin over
    <3>1. hook[r].end = "exited" \/ ~LastWord(r)
      BY <2>2 DEF LastWord
    <3> QED
      BY <1>i, <1>j, <2>2, <3>1
  <2>5. hook[r].end = "exited" => hook[r].kind = "end" /\ ~run[r].oneShot
    BY <2>1 DEF HookInv
  <2>6. CASE Turned(r) /\ ApplyOneShot(hook[r])
    <3>1. run[r].oneShot
      BY <2>6, NobodyIsNone DEF Turned, PaneInv
    <3>2. pane'.revive = pane.revive
      BY <2>1, <2>6, OneShotEffect
    <3> QED
      BY <2>1, <2>3, <2>4, <2>5, <3>1, <3>2
  <2>7. CASE hook[r].kind = "start" /\ ApplyStart(r, hook[r])
    <3>1. pane'.revive \in {Nobody, s}
      BY <2>1, <2>7, StartEffect DEF Command
    <3>2. s \notin over
      BY <1>i, <2>7
    <3> QED
      BY <1>t, <2>1, <2>3, <3>1, <3>2
  <2>8. CASE hook[r].kind = "end" /\ ApplyEnd(hook[r])
    BY <1>g, <2>1, <2>3, <2>4, <2>8, EndEffect
  <2>9. CASE hook[r].kind \notin {"start", "end"} /\ ApplyOther(r)
    <3>1. s = pane.session
      BY <1>w, <2>1, <2>9 DEF SessionInv
    <3>2. pane'.revive = pane.revive
      BY <2>1, <2>9, <3>1, OtherEffect, AdoptedPane
    <3> QED
      BY <2>1, <2>3, <2>4, <2>5, <2>9, <3>2
  <2> QED
    BY <1>4, <2>6, <2>7, <2>8, <2>9, ApplyEffect
<1>5. CASE Restart
  BY <1>5, <1>g, <1>h, RestartEffect, FreeType DEF Gone
<1>6. CASE ResumeGone
  <2>1. \A q \in Runs : hook[q] = NoHook
    BY <1>6 DEF ResumeGone, BackInv, Quiet
  <2>2. UNCHANGED hook /\ pane'.revive = Nobody
    BY <1>6, Types DEF ResumeGone, PaneType
  <2> QED
    BY <1>g, <1>h, <2>1, <2>2
<1>7. CASE SweepList \/ SweepAgents \/ FlagStep \/ UNCHANGED vars
  <2>1. UNCHANGED <<run, hook>> /\ pane'.run = pane.run /\ pane'.revive \in {pane.revive, Nobody}
    BY <1>7, Others, OthersPane
  <2>2. over' = over
    BY <1>7 DEF SweepList, SweepAgents, FlagStep, Seen, Sweep, FlagRead, FlagCleared, vars
  <2>3. ASSUME NEW q \in Runs, LastWord(q) PROVE LastWord(q)'
    BY <2>1, <2>3 DEF LastWord
  <2> QED
    BY <1>i, <1>t, <2>1, <2>2, <2>3
<1>8. ASSUME NEW r \in Runs, Lose(r) PROVE Begun' /\ Kept'
  BY <1>8, <1>w DEF Lose, May
<1>9. ASSUME NEW r \in Runs, Answered(r) PROVE Begun' /\ Kept'
  <2>1. Resolved(r) /\ \A x \in Runs \ {r} : run'[x] = run[x]
    BY <1>9, AnsweredEffect
  <2>2. ASSUME NEW q \in Runs, LastWord(q) PROVE LastWord(q)'
    BY <2>1, <2>2 DEF Resolved, LastWord
  <2> QED
    BY <1>i, <2>1, <2>2 DEF Resolved
<1> QED
  BY <1>1, <1>2, <1>3, <1>4, <1>5, <1>6, <1>7, <1>8, <1>9, Steps
-----------------------------------------------------------------------------
(* Decisions, and the record. *)

\* What a step of the agent that runs, or of none, leaves to be shown of the
\* run q: only q's own hooks, once heard, and what the user has seen.
LEMMA RunningSteps ==
  ASSUME TypeOK, HookInv, BackInv, TurnInv, DueInv, InTime, [Next]_vars,
         NEW q \in Runs, Running(q)', run'[q].session # Nobody
  PROVE  \/ Sends(q)
         \/ Answered(q)
         \/ Apply(q)
         \/ Running(q) /\ UNCHANGED <<pane, flag, record, run, hook>>
         \/ Running(q) /\ Seen
<1>w. ~May("jobs") /\ ~May("late") /\ ~May("lost") /\ ~May("slow")
  BY DEF InTime
<1>1. ASSUME NEW r \in Runs, Begin(r) \/ Resume(r) \/ BeginBare(r) PROVE FALSE
  <2>1. Took(r) /\ \A x \in Runs \ {r} : run'[x] = run[x]
    BY <1>1, Began
  <2>2. q # r
    BY <2>1 DEF Took, HookInv
  <2> QED
    BY <1>w, <2>1, <2>2 DEF Took, AtPrompt, May, Running
<1>2. ASSUME NEW r \in Runs,
             Register(r) \/ RegisterLate(r) \/ Exit(r) \/ Kill(r) \/ Finish(r) \/ FinishLate(r)
      PROVE  FALSE
  <2>1. Went(r) /\ (\A x \in Runs \ {r} : run'[x] = run[x]) /\ Active(r)
    BY <1>2, Moved DEF Went, Active
  <2>2. CASE q = r
    BY <2>1, <2>2 DEF Went, Running, HookInv
  <2>3. CASE q # r
    BY <1>w, <2>1, <2>3, OneAgent DEF Running
  <2> QED
    BY <2>2, <2>3
<1>3. ASSUME NEW r \in Runs, Sends(r) PROVE r = q
  <2>1. Sent(r) /\ \A x \in Runs \ {r} : run'[x] = run[x]
    BY <1>3, SentEffect
  <2>2. Active(r)
    BY <2>1 DEF Sent, Running, Active
  <2> QED
    BY <1>w, <2>1, <2>2, OneAgent DEF Running
<1>4. ASSUME NEW r \in Runs, Apply(r) PROVE r = q
  <2>1. UNCHANGED run /\ Active(r)
    BY <1>4, <1>w, ApplyEffect DEF TurnInv, Running, Active
  <2> QED
    BY <1>w, <2>1, OneAgent DEF Running
<1>5. ~Restart
  BY RestartEffect DEF Gone, Running
<1>6. CASE ResumeGone \/ SweepList \/ SweepAgents \/ Sweep \/ FlagRead \/ FlagCleared \/ UNCHANGED vars
  <2>1. UNCHANGED <<run, hook>> /\ Running(q)
    BY <1>6, Others DEF FlagStep, Running
  <2>2. ~ResumeGone /\ ~Sweep /\ ~FlagRead /\ ~FlagCleared
    BY <1>w, <2>1 DEF ResumeGone, BackInv, Quiet, Sweep, OwnerAway, FlagRead, FlagCleared, DueInv, May, Running
  <2>3. SweepAgents => UNCHANGED <<pane, record, flag>>
    BY <2>1 DEF SweepAgents
  <2> QED
    BY <1>6, <2>1, <2>2, <2>3 DEF SweepList, vars
<1>7. Seen => Running(q)
  BY Others DEF FlagStep, Running
<1>8. ASSUME NEW r \in Runs, Lose(r) PROVE FALSE
  BY <1>8, <1>w DEF Lose, May
<1>9. ASSUME NEW r \in Runs, Answered(r) PROVE r = q
  <2>1. Resolved(r) /\ (\A x \in Runs \ {r} : run'[x] = run[x]) /\ Active(r)
    BY <1>9, AnsweredEffect DEF Resolved, Running, Active
  <2> QED
    BY <1>w, <2>1, OneAgent DEF Running
<1> QED
  BY <1>1, <1>2, <1>3, <1>4, <1>5, <1>6, <1>7, <1>8, <1>9, Steps DEF FlagStep

\* A hook of an agent with turns is never taken for a one-turn run's.
LEMMA NotTurned ==
  ASSUME PaneInv, NEW r \in Runs, ~run[r].oneShot PROVE ~Turned(r)
  BY NobodyIsNone DEF Turned, PaneInv

LEMMA AskedOne ==
  ASSUME NEW A, NEW t, A = {t} PROVE Cardinality(A) = 1
  BY FS_Singleton

LEMMA PendingNext ==
  ASSUME MaxAsks <= 1, TypeOK, HookInv, PaneInv, BackInv, TurnInv, DueInv, PendingInv, [Next]_vars
  PROVE  PendingInv'
<1> DEFINE Waited(r, t) ==
               /\ run[r].asked = {t}
               /\ \/ t = Nobody
                  \/ hook[r].kind = "ask" /\ hook[r].tool = t
                  \/ /\ flag.state = "needs-you" /\ pane.wait = t
                     /\ hook[r] # NoHook => hook[r].kind = "toolEnd" /\ hook[r].tool # t
<1>m. UNCHANGED mode
  BY ModeFixed
<1> SUFFICES ASSUME InTime, NEW r \in Runs, Running(r)', ~run'[r].oneShot, run'[r].asked # {}
             PROVE  \E t \in Tools \cup {Nobody} : Waited(r, t)'
  BY <1>m DEF PendingInv, InTime, May
<1>n. NoHook.kind = "none"
  BY NoHookType
<1>i. ASSUME Running(r), ~run[r].oneShot, run[r].asked # {} PROVE \E t \in Tools \cup {Nobody} : Waited(r, t)
  BY <1>i DEF PendingInv
<1>s. run'[r].session # Nobody
  BY HookNext DEF HookInv
<1> HIDE DEF Waited
<1>1. CASE Sends(r)
  <2>1. Sent(r)
    BY <1>1, SentEffect
  <2>2. /\ Running(r) /\ hook[r] = NoHook /\ run[r].oneShot = run'[r].oneShot /\ UNCHANGED <<pane, flag>>
        /\ hook'[r].kind \in {"ask", "toolEnd"} /\ hook'[r] # NoHook
    BY <1>n, <2>1 DEF Sent
  <2>3. CASE hook'[r].kind = "ask"
    <3>1. /\ run'[r].asked = run[r].asked \cup {hook'[r].tool} /\ hook'[r].tool \in Tools \cup {Nobody}
          /\ Cardinality(run[r].asked) < MaxAsks
      BY <2>1, <2>3 DEF Sent
    <3>2. run[r].asked = {}
      <4> SUFFICES ASSUME run[r].asked # {} PROVE FALSE
        OBVIOUS
      <4>1. PICK t \in Tools \cup {Nobody} : Waited(r, t)
        BY <1>i, <2>2
      <4>2. run[r].asked = {t}
        BY <4>1 DEF Waited
      <4>3. Cardinality(run[r].asked) = 1
        BY <4>2, AskedOne
      <4> QED
        BY <3>1, <4>3, SessionAssumption
    <3> QED
      BY <2>3, <3>1, <3>2 DEF Waited
  <2>4. CASE hook'[r].kind = "toolEnd"
    <3>1. run'[r].asked = run[r].asked \ {hook'[r].tool}
      BY <2>1, <2>4 DEF Sent
    <3>2. PICK t \in Tools \cup {Nobody} : Waited(r, t)
      BY <1>i, <2>2, <3>1
    <3>3. run[r].asked = {t} /\ (t = Nobody \/ (flag.state = "needs-you" /\ pane.wait = t))
      BY <1>n, <2>2, <3>2 DEF Waited
    <3>4. run'[r].asked = {t} /\ hook'[r].tool # t
      BY <3>1, <3>3
    <3> QED
      BY <2>2, <2>4, <3>3, <3>4 DEF Waited
  <2> QED
    BY <2>2, <2>3, <2>4
<1>2. CASE Apply(r)
  <2>1. UNCHANGED run /\ hook[r] # NoHook /\ hook'[r] = NoHook
    BY <1>2, ApplyEffect, HeededEffect DEF Heeded
  <2>2. ~Turned(r)
    BY <2>1, NotTurned
  <2>3. PICK t \in Tools \cup {Nobody} : Waited(r, t)
    BY <1>i, <2>1 DEF Running
  <2>4. hook[r] \in HookType /\ hook[r].session \in Ids
    BY <2>1, HookType1
  <2>5. CASE hook[r].kind = "ask" /\ hook[r].tool = t
    <3>1. ApplyState(r, hook[r], "needs-you") /\ "needs-you" \in States
      BY <1>2, <2>2, <2>5 DEF Apply, Turned, States
    <3>2. flag'.state = "needs-you" /\ pane'.wait = t
      BY <2>4, <2>5, <3>1, ApplyStateEffect
    <3> QED
      BY <2>1, <2>3, <3>2 DEF Waited
  <2>6. CASE /\ flag.state = "needs-you" /\ pane.wait = t /\ t # Nobody
             /\ hook[r].kind = "toolEnd" /\ hook[r].tool # t
    <3>1. Waits(hook[r])
      BY <2>6, NobodyIsNone DEF Waits
    <3>2. ApplyWorking(r, hook[r])
      BY <1>2, <2>2, <2>6 DEF Apply, Turned
    <3>3. pane' = Adopted(r, hook[r].session) /\ UNCHANGED flag
      BY <3>1, <3>2 DEF ApplyWorking
    <3>4. pane'.wait = t
      BY <2>4, <2>6, <3>3, AdoptedPane
    <3> QED
      BY <2>1, <2>3, <2>6, <3>3, <3>4 DEF Waited
  <2>7. CASE t = Nobody
    BY <2>1, <2>3, <2>7 DEF Waited
  <2> QED
    BY <2>1, <2>3, <2>5, <2>6, <2>7 DEF Waited
<1>3. CASE Running(r) /\ UNCHANGED <<pane, flag, record, run, hook>>
  BY <1>3, <1>i DEF Waited
<1>4. CASE Running(r) /\ Seen
  <2>1. UNCHANGED <<pane, run, hook>> /\ flag.state = "done"
    BY <1>4 DEF Seen
  <2> QED
    BY <1>4, <1>i, <2>1 DEF Waited
<1>5. CASE Answered(r)
  <2>1. /\ Running(r) /\ ~run[r].oneShot /\ Nobody \in run[r].asked
        /\ run'[r].asked = run[r].asked \ {Nobody}
    BY <1>5, AnsweredEffect DEF Resolved
  <2>2. PICK t \in Tools \cup {Nobody} : Waited(r, t)
    BY <1>i, <2>1
  <2>3. run[r].asked = {t}
    BY <2>2 DEF Waited
  <2> QED
    BY <2>1, <2>3
<1> QED
  BY <1>s, <1>1, <1>2, <1>3, <1>4, <1>5, RunningSteps

LEMMA RecordNext ==
  ASSUME TypeOK, HookInv, PaneInv, BackInv, TurnInv, DueInv, SessionInv, RecordInv, [Next]_vars
  PROVE  RecordInv'
<1> DEFINE Agrees(s) == /\ record[s] = [state |-> pane.state, end |-> "none"]
                        /\ flag.state = pane.state \/ (pane.state = "done" /\ flag.state = "idle")
<1>m. UNCHANGED mode
  BY ModeFixed
<1> SUFFICES ASSUME InTime, NEW r \in Runs, Running(r)', ~run'[r].oneShot, run'[r].session # Nobody, Heard(r)',
                    NEW s, s = run'[r].session
             PROVE  Agrees(s)'
  BY <1>m DEF RecordInv, InTime, May
<1>n. NoHook.kind = "none"
  BY NoHookType
<1>i. ASSUME Running(r), ~run[r].oneShot, run[r].session # Nobody, Heard(r) PROVE Agrees(run[r].session)
  BY <1>i DEF RecordInv
<1>u. Agrees(s) /\ UNCHANGED <<record, pane, flag>> => Agrees(s)'
  OBVIOUS
<1> HIDE DEF Agrees
<1>1. CASE Sends(r)
  <2>1. Sent(r)
    BY <1>1, SentEffect
  <2>2. /\ Running(r) /\ hook[r] = NoHook /\ run[r].oneShot = run'[r].oneShot /\ UNCHANGED <<pane, flag, record>>
        /\ run'[r].session = run[r].session
    BY <2>1 DEF Sent, Heard
  <2> QED
    BY <1>i, <1>n, <1>u, <2>2 DEF Heard
<1>2. CASE Apply(r)
  <2>1. UNCHANGED run /\ hook[r] # NoHook
    BY <1>2, ApplyEffect
  <2>2. ~Turned(r)
    BY <2>1, NotTurned
  <2>3. /\ hook[r] \in HookType /\ hook[r].session \in Ids /\ hook[r].kind # "none"
        /\ hook[r].kind # "end" /\ hook[r].session = s
    <3>1. run[r].session = IF hook[r].kind = "end" THEN Nobody ELSE hook[r].session
      BY <2>1 DEF HookInv
    <3> QED
      BY <2>1, <3>1, HookType1
  <2>4. CASE ApplyStart(r, hook[r])
    BY <2>1, <2>3, <2>4, StartEffect DEF Agrees
  <2>5. CASE hook[r].kind # "start" /\ ApplyOther(r)
    <3>1. s = pane.session /\ Adopted(r, s) = pane
      BY <2>3, <2>5, AdoptedPane DEF SessionInv
    <3>2. Agrees(s)
      BY <1>i, <2>1, <2>5 DEF Running, Heard
    <3>3. ASSUME NEW e \in HookType, e.session = s, NEW state \in States, ApplyState(r, e, state)
          PROVE  Agrees(s)'
      <4>1. /\ flag'.state = state
            /\ IF flag.state = state /\ state # "needs-you"
               THEN pane' = pane /\ UNCHANGED record
               ELSE pane'.state = state /\ record' = [record EXCEPT ![s].state = state]
        BY <2>3, <3>1, <3>3, ApplyStateEffect
      <4>2. CASE flag.state = state /\ state # "needs-you"
        BY <3>2, <4>1, <4>2 DEF Agrees
      <4>3. CASE ~(flag.state = state /\ state # "needs-you")
        <5>1. record[s] = [state |-> pane.state, end |-> "none"] /\ record \in RecordType /\ s \in Ids
          BY <2>3, <3>2, Types DEF Agrees
        <5>2. record'[s] = [state |-> state, end |-> "none"]
          BY <4>1, <4>3, <5>1 DEF RecordType
        <5> QED
          BY <4>1, <4>3, <5>2 DEF Agrees
      <4> QED
        BY <4>2, <4>3
    <3>4. CASE hook[r].kind \in {"working", "toolEnd"} /\ ApplyWorking(r, hook[r])
      <4>1. CASE Waits(hook[r])
        <5>1. pane' = pane /\ UNCHANGED <<flag, record>>
          BY <2>3, <3>1, <3>4, <4>1 DEF ApplyWorking
        <5> QED
          BY <1>u, <3>2, <5>1
      <4>2. CASE ~Waits(hook[r])
        <5>1. ApplyState(r, [hook[r] EXCEPT !.tool = Nobody], "working")
          BY <3>4, <4>2 DEF ApplyWorking
        <5>2. [hook[r] EXCEPT !.tool = Nobody] \in HookType /\ [hook[r] EXCEPT !.tool = Nobody].session = s
          BY <2>3 DEF HookType
        <5>3. PICK e \in HookType : e.session = s /\ ApplyState(r, e, "working")
          BY <5>1, <5>2
        <5>4. "working" \in States
          BY DEF States
        <5> QED
          BY <3>3, <5>3, <5>4
      <4> QED
        BY <4>1, <4>2
    <3>5. ASSUME NEW state \in {"needs-you", "done"}, ApplyState(r, hook[r], state) PROVE Agrees(s)'
      <4>1. state \in States
        BY DEF States
      <4> QED
        BY <2>3, <3>3, <3>5, <4>1
    <3> QED
      BY <2>5, <3>4, <3>5 DEF ApplyOther
  <2> QED
    BY <1>2, <2>1, <2>2, <2>3, <2>4, <2>5, ApplyEffect
<1>3. CASE Running(r) /\ UNCHANGED <<pane, flag, record, run, hook>>
  BY <1>3, <1>i, <1>u DEF Heard
<1>4. CASE Running(r) /\ Seen
  <2>1. UNCHANGED <<pane, record, run, hook>> /\ flag.state = "done" /\ flag'.state = "idle"
    BY <1>4 DEF Seen, Idle
  <2> QED
    BY <1>4, <1>i, <2>1 DEF Agrees, Heard
<1>5. CASE Answered(r)
  <2>1. /\ Running(r) /\ run'[r].session = run[r].session /\ ~run[r].oneShot
        /\ UNCHANGED <<hook, record, pane, flag>>
    BY <1>5, AnsweredEffect DEF Resolved
  <2> QED
    BY <1>i, <1>u, <2>1 DEF Heard
<1> QED
  BY <1>1, <1>2, <1>3, <1>4, <1>5, RunningSteps
-----------------------------------------------------------------------------
(* Theorems. *)

LEMMA FirstStates ==
  Init => PaneInv /\ BackInv /\ TurnInv /\ TurnedInv /\ LaunchedInv /\ SessionInv /\ ReviveNamesSession
          /\ DueInv /\ OverInv /\ PendingInv /\ RecordInv
<1> SUFFICES ASSUME Init
             PROVE  PaneInv /\ BackInv /\ TurnInv /\ TurnedInv /\ LaunchedInv /\ SessionInv /\ ReviveNamesSession
                    /\ DueInv /\ OverInv /\ PendingInv /\ RecordInv
  OBVIOUS
<1>1. pane.run = Nobody /\ pane.revive = Nobody /\ back = Nobody /\ over = {}
  BY FreeType DEF Init
<1>2. \A r \in Runs : run[r].phase = "none" /\ hook[r] = NoHook
  BY DEF Init
<1>3. PaneInv /\ BackInv /\ TurnedInv /\ ReviveNamesSession
  BY <1>1 DEF PaneInv, BackInv, TurnedInv, ReviveNamesSession
<1>4. TurnInv /\ LaunchedInv
  BY <1>2 DEF TurnInv, LaunchedInv, Active
<1>5. SessionInv /\ PendingInv /\ RecordInv
  BY <1>2, NoHookType DEF SessionInv, PendingInv, RecordInv, Running
<1>6. OverInv /\ DueInv
  BY <1>1 DEF OverInv, DueInv, Init
<1> QED
  BY <1>3, <1>4, <1>5, <1>6

LEMMA DueNext == ASSUME TypeOK, HookInv, DueInv, [Next]_vars PROVE DueInv'
  BY DueSteps, ModeFixed DEF FlagRead, DueInv, May

LEMMA Turns == Spec => [](TypeOK /\ HookInv /\ PaneInv /\ BackInv /\ TurnInv /\ DueInv /\ LaunchedInv /\ SessionInv)
<1>1. TypeOK /\ HookInv /\ PaneInv /\ BackInv /\ TurnInv /\ DueInv /\ LaunchedInv /\ SessionInv /\ [Next]_vars
        => (PaneInv /\ BackInv /\ TurnInv /\ DueInv /\ LaunchedInv /\ SessionInv)'
  BY PaneNext, TurnNext, DueNext, LaunchedNext, SessionNext
<1> QED
  BY <1>1, FirstStates, Base, PTL DEF Spec

\* A one-turn run leaves no resume command, launched or not, whatever hooks are
\* lost and however launchers wait for the lock: as long as no hook of it is heard
\* after its agent is gone, when nobody can tell any more what it was.
THEOREM OneShotNeverResumed == Spec => []OneShotStays
<1>1. TypeOK /\ HookInv /\ TurnInv /\ OneShotInv /\ [Next]_vars => OneShotInv'
  BY OneShotNext
<1>2. OneShotInv => OneShotStays
  BY DEF OneShotInv
<1> QED
  BY <1>1, <1>2, OneShotInit, Turns, PTL DEF Spec

\* As long as not two of these go wrong at once, a restore resumes no other
\* session than the pane's own: with launchers done without, hooks lost, or
\* launchers that cannot get the lock.
THEOREM ReviveIsTheSessions == Spec => []ReviveNamesSession
<1>1. TypeOK /\ HookInv /\ PaneInv /\ BackInv /\ TurnInv /\ LaunchedInv /\ SessionInv
      /\ TurnedInv /\ ReviveNamesSession /\ [Next]_vars => (TurnedInv /\ ReviveNamesSession)'
  BY TurnedNext, NamesNext
<1> QED
  BY <1>1, FirstStates, Turns, PTL DEF Spec

\* A sweep leaves the resume command of a session whose run was killed.
THEOREM SweepKeepsKilled == Spec => ListedKept
<1>1. ASSUME ReviveNamesSession, SweepAgents, maybe[1] = pane.session, OneWay, WasKilled(pane.revive)
      PROVE  pane'.revive = pane.revive
  <2>1. pane.revive = pane.session
    BY <1>1 DEF ReviveNamesSession, WasKilled
  <2> QED
    BY <1>1, <2>1 DEF SweepAgents
<1>2. ReviveNamesSession =>
        [SweepAgents /\ maybe[1] = pane.session /\ OneWay
            => (WasKilled(pane.revive) => pane'.revive = pane.revive)]_vars
  BY <1>1
<1> QED
  BY <1>2, ReviveIsTheSessions, PTL DEF ListedKept

\* When every hook and launcher comes to its word in time, the pane that is
\* left resumes no session that its user ended or that ended by itself.
THEOREM EndedIsLetGo == Spec => []EndedLetGo
<1>1. TypeOK /\ HookInv /\ PaneInv /\ BackInv /\ TurnInv /\ LaunchedInv /\ SessionInv /\ OverInv /\ [Next]_vars
        => OverInv'
  BY OverNext
<1>2. OverInv => EndedLetGo
  BY NoHookType DEF OverInv, EndedLetGo, Quiet
<1> QED
  BY <1>1, <1>2, FirstStates, Turns, PTL DEF Spec

\* While an agent waits on a decision on a tool its pane is flagged needs-you,
\* whatever other tools end beside it: with one decision at a time, as the pane has
\* room for one tool, and as long as no Seen or sweep has a hook in its middle.
THEOREM PendingIsShown ==
  ASSUME MaxAsks <= 1 PROVE Spec => []PendingStays
<1>1. TypeOK /\ HookInv /\ PaneInv /\ BackInv /\ TurnInv /\ DueInv /\ SessionInv /\ PendingInv /\ [Next]_vars
        => PendingInv'
  BY PendingNext
<1>2. PendingInv => PendingStays
  <2> SUFFICES ASSUME PendingInv, NEW r \in Runs, Alone(r), run[r].asked # {}, Nobody \notin run[r].asked
               PROVE  flag.state = "needs-you"
    BY DEF PendingStays
  <2>1. InTime /\ Running(r) /\ ~run[r].oneShot /\ hook[r].kind = "none"
    BY NoHookType DEF Alone, InTime, May
  <2> QED
    BY <2>1 DEF PendingInv
<1> QED
  BY <1>1, <1>2, FirstStates, Turns, PTL DEF Spec

\* Between hooks the session's record holds the state a resume brings back:
\* the one the pane shows, a seen done aside.  An agent nobody stops, whose hooks are
\* all heard, and none in the middle of a Seen or a sweep.
THEOREM RecordIsThePanes == Spec => []RecordAgrees
<1>1. TypeOK /\ HookInv /\ PaneInv /\ BackInv /\ TurnInv /\ DueInv /\ SessionInv /\ RecordInv /\ [Next]_vars
        => RecordInv'
  BY RecordNext
<1>2. RecordInv => RecordAgrees
  <2> SUFFICES ASSUME RecordInv, NEW r \in Runs, Alone(r), run[r].session # Nobody
               PROVE  /\ record[run[r].session] = [state |-> pane.state, end |-> "none"]
                      /\ flag.state = pane.state \/ (pane.state = "done" /\ flag.state = "idle")
    BY DEF RecordAgrees
  <2>1. InTime /\ Running(r) /\ ~run[r].oneShot /\ Heard(r)
    BY NoHookType DEF Alone, InTime, May, Heard
  <2> QED
    BY <2>1 DEF RecordInv
<1> QED
  BY <1>1, <1>2, FirstStates, Turns, PTL DEF Spec
=============================================================================
