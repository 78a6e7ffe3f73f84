----------------------------- MODULE AgentSession -----------------------------
(***************************************************************************)
(* One pane's agent session: launchers, agents, and the hooks agents send. *)
(* A hook, a launcher's register and finish and SweepAgents hold the agent *)
(* lock, so each is one step on the pane's options, the flag and the       *)
(* session records; the core's Seen and Sweep hold none.  Window titles,   *)
(* reasons and times are left out.                                         *)
(***************************************************************************)
EXTENDS Naturals, FiniteSets

CONSTANTS
    Runs,      \* agent processes, each with its own launcher pid if it has one
    Sessions,  \* session ids of interactive runs
    OneShots,  \* session ids of one-turn runs
    Tools,
    Nobody,
    MaxAsks,   \* decisions an agent waits on at once
    Modes      \* see mode

ASSUME SessionAssumption ==
    /\ Nobody \notin Runs \cup Sessions \cup OneShots \cup Tools
    /\ Sessions \cap OneShots = {}
    /\ MaxAsks \in Nat /\ Modes \subseteq
           [ways : SUBSET {"bare", "jobs", "late", "lost", "busy", "slow"},
            sessions : SUBSET Sessions, tools : SUBSET Tools]

Ids == Sessions \cup OneShots

VARIABLES
    mode,    \* fixed: the sessions and tools there are, and what may happen:
             \* agents start without the launcher ("bare"), are stopped and
             \* others started beside them ("jobs"), a hook outlives its agent
             \* ("late") or is lost ("lost"), the lock is held past a launcher's
             \* wait ("busy"), a hook comes between what Seen or Sweep reads and
             \* what it clears ("slow")
    pane,    \* the pane's options, Nobody for one that is unset
    flag,    \* its attention flag, and whether the agent's command owns it
    due,     \* the one of Seen and Sweep that has read a flag it is to clear
    record,  \* what the store keeps of each session
    run,     \* the agent processes
    hook,    \* the hook each has sent and that waits for the lock
    maybe,   \* the session SweepAgents listed, if any
    back,    \* the session a restore types the resume of
    over     \* history: sessions that ended by themselves or by their user

vars == <<mode, pane, flag, due, record, run, hook, maybe, back, over>>

Idle == [state |-> "idle", owned |-> FALSE]
Own(s) == [state |-> s, owned |-> TRUE]
Free == [agent |-> FALSE, session |-> Nobody, state |-> "idle", wait |-> Nobody,
         run |-> Nobody, oneShot |-> FALSE, resume |-> Nobody, revive |-> Nobody]
NoHook == [kind |-> "none", session |-> Nobody, tool |-> Nobody, end |-> "none"]
Event(k, s, t, e) == [kind |-> k, session |-> s, tool |-> t, end |-> e]

\* sessionOpts unset.
LetGo(p) ==
    [p EXCEPT !.agent = FALSE, !.session = Nobody, !.state = "idle", !.wait = Nobody, !.revive = Nobody]

Init ==
    /\ mode \in Modes
    /\ pane = Free /\ flag = Idle /\ due = "none"
    /\ record = [s \in Ids |-> [state |-> "idle", end |-> "none"]]
    /\ run = [r \in Runs |-> [phase |-> "none", launched |-> FALSE, oneShot |-> FALSE, resume |-> Nobody,
                              session |-> Nobody, killed |-> FALSE, failed |-> FALSE, asked |-> {}]]
    /\ hook = [r \in Runs |-> NoHook]
    /\ maybe = <<>> /\ back = Nobody /\ over = {}

Running(r) == run[r].phase = "running"
Ended(s) == IF s = Nobody THEN over ELSE over \cup {s}
-----------------------------------------------------------------------------
(* Processes.                                                              *)

\* The shell has the pane.
AtPrompt == "jobs" \in mode.ways \/ \A r \in Runs : run[r].phase \in {"none", "gone"}

Launch(r, resume) ==
    /\ run[r].phase = "none" /\ AtPrompt
    /\ \E oneShot \in BOOLEAN :
           /\ oneShot => resume = Nobody
           /\ run' = [run EXCEPT ![r].phase = "launched", ![r].launched = TRUE,
                                 ![r].oneShot = oneShot, ![r].resume = resume]
    /\ UNCHANGED <<mode, pane, flag, due, record, hook, maybe, over>>

\* The user starts an agent through the launcher.
Begin(r) == back = Nobody /\ Launch(r, Nobody) /\ UNCHANGED back

\* A restore types the resume command.
Resume(r) == back # Nobody /\ Launch(r, back) /\ back' = Nobody

\* prepareRevive: the session has no transcript left.
ResumeGone ==
    /\ back # Nobody
    /\ record' = [record EXCEPT ![back].end = "exited"]
    /\ pane' = [pane EXCEPT !.revive = Nobody]
    /\ over' = Ended(back) /\ back' = Nobody
    /\ UNCHANGED <<mode, flag, due, run, hook, maybe>>

\* An agent without the launcher: a program or a tool started it.
BeginBare(r) ==
    /\ "bare" \in mode.ways /\ back = Nobody /\ run[r].phase = "none" /\ AtPrompt
    /\ \E oneShot \in BOOLEAN : run' = [run EXCEPT ![r].phase = "running", ![r].oneShot = oneShot]
    /\ UNCHANGED <<mode, pane, flag, due, record, hook, maybe, back, over>>

\* Mutant of Replace: the last agent's resume command stays.
ReplaceRun(r) ==
    /\ run' = [run EXCEPT ![r].phase = "running"]
    /\ pane' = [LetGo(pane) EXCEPT !.agent = TRUE, !.run = r, !.oneShot = run[r].oneShot,
                                   !.resume = run[r].resume, !.revive = pane.revive]

Replace(r) ==
    /\ run' = [run EXCEPT ![r].phase = "running"]
    /\ pane' = [LetGo(pane) EXCEPT !.agent = TRUE, !.run = r, !.oneShot = run[r].oneShot,
                                   !.resume = run[r].resume]

\* register: the run replaces whatever the pane's last agent left.
Register(r) ==
    /\ run[r].phase = "launched"
    /\ Replace(r)
    /\ flag' = IF run[r].oneShot /\ flag.state # "working" THEN Own("working") ELSE flag
    /\ UNCHANGED <<mode, due, record, hook, maybe, back, over>>

\* The lock is held past register's second: the agent starts all the same.
RegisterLate(r) ==
    /\ "busy" \in mode.ways /\ run[r].phase = "launched"
    /\ run' = [run EXCEPT ![r].phase = "running"]
    /\ UNCHANGED <<mode, pane, flag, due, record, hook, maybe, back, over>>

\* The agent ends by itself, or crashes; its launcher finishes.
Dies(r, failed, killed) ==
    /\ Running(r)
    /\ "late" \in mode.ways \/ hook[r] = NoHook
    /\ run' = [run EXCEPT ![r].phase = IF run[r].launched THEN "ending" ELSE "gone",
                          ![r].failed = failed, ![r].killed = killed]
    /\ over' = IF run[r].launched /\ ~killed THEN Ended(run[r].session) ELSE over
    /\ UNCHANGED <<mode, pane, flag, due, record, hook, maybe, back>>

Exit(r) == \E failed \in BOOLEAN : Dies(r, failed, FALSE)

\* SIGTERM or SIGHUP to the launcher.
Kill(r) == run[r].launched /\ Dies(r, TRUE, TRUE)
-----------------------------------------------------------------------------
(* Hooks: the agent runs one at a time.                                    *)

Send(r, event) ==
    /\ Running(r) /\ hook[r] = NoHook
    /\ hook' = [hook EXCEPT ![r] = event]
    /\ UNCHANGED <<mode, pane, flag, due, record, maybe, back>>

\* A session begins: a new one, the resumed one, or the next after /clear.
SendStart(r, s) ==
    /\ run[r].session = Nobody
    /\ s \in IF run[r].oneShot THEN OneShots ELSE mode.sessions
    /\ \A q \in Runs \ {r} : Running(q) => run[q].session # s
    /\ run[r].resume \in {Nobody, s}
    /\ Send(r, Event("start", s, Nobody, "none"))
    /\ run' = [run EXCEPT ![r].session = s]
    /\ over' = over \ {s}

SendWorking(r) ==
    /\ run[r].session # Nobody /\ run[r].asked = {}
    /\ Send(r, Event("working", run[r].session, Nobody, "none"))
    /\ UNCHANGED <<run, over>>

\* It asks for a decision on a tool, or, with no tool named, for one of another
\* kind: elicitation_dialog, agent_needs_input.
SendAsk(r, t) ==
    /\ run[r].session # Nobody /\ ~run[r].oneShot
    /\ Cardinality(run[r].asked) < MaxAsks /\ t \notin run[r].asked
    /\ Send(r, Event("ask", run[r].session, t, "none"))
    /\ run' = [run EXCEPT ![r].asked = @ \cup {t}]
    /\ UNCHANGED over

\* A tool ends: one the user decided on, or another beside it.
SendToolEnd(r, t) ==
    /\ run[r].session # Nobody
    /\ Send(r, Event("toolEnd", run[r].session, t, "none"))
    /\ run' = [run EXCEPT ![r].asked = @ \ {t}]
    /\ UNCHANGED over

\* A decision that names no tool is made, and no hook says so.
Answered(r) ==
    /\ Running(r) /\ Nobody \in run[r].asked
    /\ run' = [run EXCEPT ![r].asked = @ \ {Nobody}]
    /\ UNCHANGED <<mode, pane, flag, due, record, hook, maybe, back, over>>

SendTurnEnd(r) ==
    /\ run[r].session # Nobody /\ run[r].asked = {}
    /\ Send(r, Event("turnEnd", run[r].session, Nobody, "none"))
    /\ UNCHANGED <<run, over>>

SendEnd(r) ==
    /\ run[r].session # Nobody
    /\ \E end \in {"exited", "unknown"} :
           /\ run[r].oneShot => end = "unknown"
           /\ Send(r, Event("end", run[r].session, Nobody, end))
           /\ over' = IF end = "exited" THEN Ended(run[r].session) ELSE over
    /\ run' = [run EXCEPT ![r].session = Nobody, ![r].resume = Nobody, ![r].asked = {}]
-----------------------------------------------------------------------------
(* What a hook does.                                                       *)

\* Mutant of Command: every run leaves its resume command.
CommandAlways(r, s) == s

\* OneShotHook: a hook learns from its agent's arguments that the run is
\* one-turn, so from an agent that is still there.
OneShotHook(r) == run[r].oneShot /\ Running(r)

\* revive: no resume command for a one-turn run.
Command(r, s) == IF OneShotHook(r) THEN Nobody ELSE s

Flagged(s) == IF flag.state = s THEN flag ELSE Own(s)

Remembered(s, state) == [record EXCEPT ![s].state = state]

\* markEnded: unknown never replaces a surer word.
Marked(s, end) ==
    IF s = Nobody \/ (end = "unknown" /\ record[s].end # "none")
    THEN record ELSE [record EXCEPT ![s].end = end]

\* oneShot: the launcher flags the run, its hooks only name the session.
ApplyOneShot(e) ==
    /\ IF e.kind = "end"
       THEN record' = Marked(e.session, e.end) /\ UNCHANGED pane
       ELSE /\ pane' = IF e.session = pane.session THEN pane
                       ELSE [pane EXCEPT !.agent = TRUE, !.session = e.session]
            /\ UNCHANGED record
    /\ UNCHANGED flag

\* Mutant of ApplyStart: the record keeps how the session last ended.
ApplyStartEnded(r, e) ==
    /\ flag' = Idle
    /\ pane' = [pane EXCEPT !.agent = TRUE, !.session = e.session, !.state = "idle", !.wait = Nobody,
                            !.resume = Nobody, !.revive = Command(r, e.session)]
    /\ record' = [record EXCEPT ![e.session].state = "idle"]

\* start: a resume that a restore started brings back the session's state.
ApplyStart(r, e) ==
    LET old == IF pane.resume = e.session /\ record[e.session].end # "exited"
               THEN record[e.session].state ELSE "idle"
        state == IF old = "working" THEN "needs-you" ELSE old
    IN
    /\ flag' = IF state = "idle" THEN Idle ELSE Flagged(state)
    /\ pane' = [pane EXCEPT !.agent = TRUE, !.session = e.session, !.state = state, !.wait = Nobody,
                            !.resume = Nobody, !.revive = Command(r, e.session)]
    /\ record' = [record EXCEPT ![e.session] = [state |-> state, end |-> "none"]]

ApplyEnd(e) ==
    /\ flag' = Idle
    /\ pane' = IF e.end = "exited" THEN LetGo(pane) ELSE pane
    /\ record' = Marked(e.session, e.end)

\* adopt: a session whose start was missed.
Adopted(r, s) ==
    IF s = pane.session THEN pane
    ELSE [pane EXCEPT !.agent = TRUE, !.session = s,
                      !.revive = IF OneShotHook(r) THEN @ ELSE s]

\* Mutant of Waits: any tool's end answers the decision.
WaitsNever(e) == FALSE

\* A pending decision outlasts another tool.
Waits(e) == e.kind = "toolEnd" /\ flag.state = "needs-you" /\ pane.wait \notin {Nobody, e.tool}

\* Working and turn end write nothing more when the flag does not change.
ApplyState(r, e, state) ==
    /\ flag' = Flagged(state)
    /\ IF flag.state = state /\ state # "needs-you"
       THEN pane' = Adopted(r, e.session) /\ UNCHANGED record
       ELSE /\ pane' = [Adopted(r, e.session) EXCEPT !.state = state, !.wait = e.tool]
            /\ record' = Remembered(e.session, state)

ApplyWorking(r, e) ==
    IF Waits(e)
    THEN pane' = Adopted(r, e.session) /\ UNCHANGED <<flag, record>>
    ELSE ApplyState(r, [e EXCEPT !.tool = Nobody], "working")

\* Apply, under the lock.
Apply(r) ==
    LET e == hook[r] IN
    /\ e # NoHook
    /\ hook' = [hook EXCEPT ![r] = NoHook]
    /\ IF run[r].launched /\ pane.run = r /\ pane.oneShot
       THEN ApplyOneShot(e)
       ELSE \/ e.kind = "start" /\ ApplyStart(r, e)
            \/ e.kind = "end" /\ ApplyEnd(e)
            \/ e.kind \in {"working", "toolEnd"} /\ ApplyWorking(r, e)
            \/ e.kind = "ask" /\ ApplyState(r, e, "needs-you")
            \/ e.kind = "turnEnd" /\ ApplyState(r, e, "done")
    /\ UNCHANGED <<mode, due, run, maybe, back, over>>

Lose(r) ==
    /\ "lost" \in mode.ways /\ hook[r] # NoHook
    /\ hook' = [hook EXCEPT ![r] = NoHook]
    /\ UNCHANGED <<mode, pane, flag, due, record, run, maybe, back, over>>
-----------------------------------------------------------------------------
(* The end of a run, sweeps, restarts.                                     *)

Over(r) == run' = [run EXCEPT ![r].phase = "gone"]

\* Mutant of Finish: the pane still counts as a one-turn run's.
FinishForgets(r) ==
    /\ run[r].phase = "ending" /\ Over(r)
    /\ pane' = IF pane.run = r THEN [LetGo(pane) EXCEPT !.run = Nobody, !.resume = Nobody] ELSE pane
    /\ over' = Ended(pane.session)
    /\ UNCHANGED <<mode, flag, due, record, hook, maybe, back>>

\* Mutant of Finish: an agent that ended by itself keeps its session.
FinishKeeps(r) ==
    /\ run[r].phase = "ending" /\ Over(r)
    /\ pane' = IF pane.run = r
               THEN [pane EXCEPT !.run = Nobody, !.oneShot = FALSE, !.resume = Nobody] ELSE pane
    /\ UNCHANGED <<mode, flag, due, record, over, hook, maybe, back>>

\* finish: nothing when another run took the pane.
Finish(r) ==
    LET killed == run[r].killed IN
    /\ run[r].phase = "ending" /\ Over(r)
    /\ IF pane.run # r
       THEN UNCHANGED <<pane, flag, record, over>>
       ELSE /\ flag' = CASE killed -> flag
                         [] run[r].failed \/ run[r].oneShot ->
                               IF flag.state = "done" THEN flag ELSE [state |-> "done", owned |-> FALSE]
                         [] OTHER -> Idle
            /\ pane' = [(IF killed THEN pane ELSE LetGo(pane)) EXCEPT
                            !.run = Nobody, !.oneShot = FALSE, !.resume = Nobody]
            /\ record' = Marked(pane.session, IF killed THEN "killed" ELSE "exited")
            /\ over' = IF killed THEN over ELSE Ended(pane.session)
    /\ UNCHANGED <<mode, due, hook, maybe, back>>

\* The wait for the lock uses up finish's two seconds: its tmux calls fail.
FinishLate(r) ==
    /\ "busy" \in mode.ways /\ run[r].phase = "ending" /\ Over(r)
    /\ UNCHANGED <<mode, pane, flag, due, record, hook, maybe, back, over>>

\* SweepAgents lists the panes before it takes the lock.
SweepList ==
    /\ maybe = <<>> /\ pane.agent /\ pane.run = Nobody
    /\ maybe' = <<pane.session>>
    /\ UNCHANGED <<mode, pane, flag, due, record, run, hook, back, over>>

WasKilled(s) == s # Nobody /\ record[s].end = "killed"

\* Mutant of SweepAgents: a killed run's session goes too.
SweepKilled ==
    /\ maybe # <<>> /\ maybe' = <<>>
    /\ IF (\E r \in Runs : Running(r)) \/ ~pane.agent \/ pane.run # Nobody
       THEN UNCHANGED <<pane, record>>
       ELSE pane' = LetGo(pane) /\ record' = Marked(maybe[1], "unknown")
    /\ UNCHANGED <<mode, flag, due, run, hook, back, over>>

SweepAgents ==
    /\ maybe # <<>> /\ maybe' = <<>>
    /\ IF (\E r \in Runs : Running(r)) \/ WasKilled(maybe[1]) \/ ~pane.agent \/ pane.run # Nobody
       THEN UNCHANGED <<pane, record>>
       ELSE pane' = LetGo(pane) /\ record' = Marked(maybe[1], "unknown")
    /\ UNCHANGED <<mode, flag, due, run, hook, back, over>>

\* The flag has an owner, and the shell the pane: no agent is left, or Ctrl-Z
\* stopped it.
OwnerAway == flag.owned /\ ("jobs" \in mode.ways \/ \A r \in Runs : ~Running(r))

\* Seen: a done flag has been looked at.  Sweep: the owner has gone.
Seen ==
    /\ flag.state = "done" /\ flag' = Idle
    /\ UNCHANGED <<mode, pane, due, record, run, hook, maybe, back, over>>

Sweep ==
    /\ OwnerAway /\ flag' = Idle
    /\ UNCHANGED <<mode, pane, due, record, run, hook, maybe, back, over>>

\* Neither has a lock: what is cleared need not be what was read.
FlagRead ==
    /\ "slow" \in mode.ways
    /\ \/ flag.state = "done" /\ due' = "Seen"
       \/ OwnerAway /\ due' = "Sweep"
    /\ UNCHANGED <<mode, pane, flag, record, run, hook, maybe, back, over>>

FlagCleared ==
    /\ due # "none" /\ due' = "none" /\ flag' = Idle
    /\ UNCHANGED <<mode, pane, record, run, hook, maybe, back, over>>

\* The server goes and a restore brings the pane back.  Agents that were
\* running may have said so: "The pane closed before its agent's last word".
Restart ==
    /\ pane' = Free /\ flag' = Idle /\ due' = "none" /\ maybe' = <<>>
    /\ back' = pane.revive
    /\ run' = [r \in Runs |-> IF run[r].phase = "none" THEN run[r] ELSE [run[r] EXCEPT !.phase = "gone"]]
    /\ hook' = [r \in Runs |-> NoHook]
    /\ \E heard \in SUBSET {run[r].session : r \in {q \in Runs : Running(q)}} :
           record' = [s \in Ids |-> IF s \in heard THEN Marked(s, "unknown")[s] ELSE record[s]]
    /\ UNCHANGED <<mode, over>>

Next ==
    \/ \E r \in Runs :
           \/ Begin(r) \/ Resume(r) \/ BeginBare(r) \/ Register(r) \/ RegisterLate(r) \/ Exit(r) \/ Kill(r)
           \/ \E s \in Ids : SendStart(r, s)
           \/ \E t \in mode.tools \cup {Nobody} : SendAsk(r, t)
           \/ \E t \in mode.tools : SendToolEnd(r, t)
           \/ Answered(r) \/ SendWorking(r) \/ SendTurnEnd(r) \/ SendEnd(r)
           \/ Apply(r) \/ Lose(r) \/ Finish(r) \/ FinishLate(r)
    \/ ResumeGone \/ SweepList \/ SweepAgents \/ Seen \/ Sweep \/ FlagRead \/ FlagCleared \/ Restart

Spec == Init /\ [][Next]_vars
-----------------------------------------------------------------------------
States == {"idle", "needs-you", "done", "working"}

PaneType == [agent : BOOLEAN, session : Ids \cup {Nobody}, state : States, wait : Tools \cup {Nobody},
             run : Runs \cup {Nobody}, oneShot : BOOLEAN, resume : Ids \cup {Nobody},
             revive : Ids \cup {Nobody}]
RunType == [phase : {"none", "launched", "running", "ending", "gone"}, launched : BOOLEAN, oneShot : BOOLEAN,
            resume : Ids \cup {Nobody}, session : Ids \cup {Nobody}, killed : BOOLEAN, failed : BOOLEAN,
            asked : SUBSET (Tools \cup {Nobody})]
HookType == [kind : {"none", "start", "working", "ask", "toolEnd", "turnEnd", "end"},
             session : Ids \cup {Nobody}, tool : Tools \cup {Nobody}, end : {"none", "exited", "unknown"}]

\* The variables take the values the code gives them, and only a launched
\* run marks the pane as one-turn.
TypeOK ==
    /\ mode \in Modes
    /\ pane \in PaneType
    /\ pane.oneShot => pane.run # Nobody
    /\ flag \in [state : States, owned : BOOLEAN] /\ due \in {"none", "Seen", "Sweep"}
    /\ record \in [Ids -> [state : States, end : {"none", "exited", "killed", "unknown"}]]
    /\ run \in [Runs -> RunType] /\ hook \in [Runs -> HookType]
    /\ maybe = <<>> \/ \E s \in Ids \cup {Nobody} : maybe = <<s>>
    /\ back \in Ids \cup {Nobody} /\ over \subseteq Ids

\* At most one of these: launchers are done without, or hooks lost, or the lock
\* is held too long.
OneWay == mode.ways \in {{}, {"bare"}, {"lost"}, {"busy"}}

\* The pane's resume command names the pane's own session, so a restore
\* never resumes another conversation than the one that was there, also when
\* hooks are lost, or launchers cannot get the lock, or agents start without
\* one.  A one-turn run that is heard of in the middle breaks it when two of
\* these meet, as do the agents of two jobs and hooks that come late.
ReviveNamesSession == OneWay => pane.revive \in {Nobody, pane.session}

\* "A one-turn run never runs again": it leaves no resume command, launched or
\* not, whatever hooks are lost and however launchers wait for the lock, as long
\* as its agent is there when a hook of it looks.
OneShotStays == "late" \notin mode.ways => {pane.revive, back} \cap OneShots = {}

Quiet == \A r \in Runs : run[r].phase \in {"none", "gone"} /\ hook[r] = NoHook

\* Once no agent or launcher is left, the pane resumes no session that its
\* user ended or that ended by itself under a launcher: as long as every hook
\* and launcher comes to its word in time.
EndedLetGo == mode.ways \subseteq {"bare"} /\ Quiet => pane.revive \notin over

\* A sweep leaves the resume command of a session whose run was killed, when
\* the session it listed is still the pane's.
ListedKept ==
    [][SweepAgents /\ maybe[1] = pane.session /\ OneWay
          => (WasKilled(pane.revive) => pane'.revive = pane.revive)]_vars

\* The pane is one agent's, nobody stops it, and every hook of it has been heard
\* and none in the middle of a Seen or a sweep.
Alone(r) ==
    /\ Running(r) /\ hook[r] = NoHook /\ run[r].session = pane.session /\ ~run[r].oneShot
    /\ \A q \in Runs \ {r} : run[q].phase \in {"none", "gone"} /\ hook[q] = NoHook
    /\ mode.ways \cap {"late", "lost", "jobs", "slow"} = {}

\* "A decision that is pending on one tool stays when another tool, run beside it,
\* finishes": while an agent waits on it the pane is flagged needs-you.  With more
\* than one at a time (MaxAsks) the code keeps the last only.
PendingStays ==
    \A r \in Runs :
        Alone(r) /\ run[r].asked # {} /\ Nobody \notin run[r].asked => flag.state = "needs-you"

\* Between hooks the session's record holds the state a resume brings back:
\* the one the pane shows, a seen done aside.
RecordAgrees ==
    \A r \in Runs : Alone(r) /\ run[r].session # Nobody =>
        /\ record[run[r].session] = [state |-> pane.state, end |-> "none"]
        /\ flag.state = pane.state \/ (pane.state = "done" /\ flag.state = "idle")
=============================================================================
