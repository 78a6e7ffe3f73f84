------------------------------- MODULE LaunchJob -------------------------------
(***************************************************************************)
(* The job control of the launcher (Launch, waitAgent): the launcher and   *)
(* the agent are one job of a shell.  The agent is the launcher's child,   *)
(* so the shell sees only the launcher stop.  Signals come from the        *)
(* terminal to both, or from anyone to either; the launcher passes TERM    *)
(* and HUP on.                                                             *)
(*                                                                         *)
(* The kernel's rules used here: a stop signal takes hold of a process     *)
(* before it runs on from the call it is in; SIGCONT discards a stop that  *)
(* is pending and the report of a stop nobody read; a signal that would    *)
(* end a stopped process waits until it is continued.                      *)
(***************************************************************************)
EXTENDS Integers

CONSTANTS
    MaxStops,      \* stops, and strays, at most
    MaxSignals     \* the launcher's channel holds so many, and drops the rest

ASSUME LaunchAssumption == MaxStops \in Nat /\ MaxSignals \in Nat \ {0}

VARIABLES
    step,       \* the launcher: "wait" (wait4), "check" (isStopped), "stop"
                \* (stopSelf), "continue", "reap" (signal.Stop), "drain",
                \* "finish", "over"
    launcher,   \* "running", "halting" (a stop is pending) or "stopped"
    agent,      \* "running", "halting", "stopped", "read" (stopped, and the
                \* launcher has read it), "dead" or "reaped"
    ending,     \* the signal that ends the stopped agent once it goes on
    sigs,       \* TERM or HUP in the launcher's channel
    killed,     \* the launcher's killed: "no" or "yes"
    tty,        \* whose the terminal is: "job", "shell", or "gone" with the pane
    record,     \* how finish records the end: "none", "killed" or "exited"
    cause,      \* history: how the agent ended: "none", "itself", "stray" (a signal
                \* sent to it alone), "hangup" or "passed"
    asked,      \* history: how often someone stopped the agent or the job
    taken,      \* history: how often the shell took the terminal back
    strays      \* history: continues sent to one of them alone

jvars == <<step, launcher, agent, ending, sigs, killed, tty, record, cause, asked, taken, strays>>

Runs == agent \in {"running", "halting"}
Stopped == agent \in {"stopped", "read"}
Alive == Runs \/ Stopped
Life == <<agent, ending, cause>>
Fate == <<killed, tty, record>>
History == <<asked, taken, strays>>

JInit ==
    /\ step = "wait" /\ launcher = "running" /\ agent = "running" /\ ending = "none"
    /\ sigs = 0 /\ killed = "no" /\ tty = "job" /\ record = "none" /\ cause = "none"
    /\ asked = 0 /\ taken = 0 /\ strays = 0
-----------------------------------------------------------------------------
\* The agent is continued: a signal that waits to end it does.
Continued ==
    /\ ending' = "none"
    /\ IF Stopped /\ ending # "none" THEN agent' = "dead" /\ cause' = ending
       ELSE agent' = (IF Alive THEN "running" ELSE agent) /\ UNCHANGED cause

\* A signal that ends the agent, now or when it is continued.
Ended(by) ==
    IF Runs THEN agent' = "dead" /\ cause' = by /\ UNCHANGED ending
    ELSE /\ ending' = IF Stopped /\ ending = "none" THEN by ELSE ending
         /\ UNCHANGED <<agent, cause>>

\* A signal for the launcher: caught, or the end of it after signal.Stop.
Caught ==
    IF step \in {"drain", "finish"} THEN step' = "over" /\ UNCHANGED sigs
    ELSE sigs' = (IF sigs < MaxSignals THEN sigs + 1 ELSE sigs) /\ UNCHANGED step

\* The agent reads Ctrl-Z as a key and stops itself, or anyone stops it.
AgentStops ==
    /\ Runs /\ asked < MaxStops
    /\ agent' = "stopped" /\ asked' = asked + 1
    /\ UNCHANGED <<step, launcher, ending, sigs, Fate, cause, taken, strays>>

\* A stop for the whole job.
JobStops ==
    /\ launcher' = IF launcher = "running" THEN "halting" ELSE launcher
    /\ agent' = IF agent = "running" THEN "halting" ELSE agent

\* The terminal turns Ctrl-Z into a signal for the job.
CtrlZ ==
    /\ tty = "job" /\ asked < MaxStops /\ step # "over"
    /\ JobStops /\ asked' = asked + 1
    /\ UNCHANGED <<step, ending, sigs, Fate, cause, taken, strays>>

\* The agent reads from a terminal that is not its own: the job is stopped.
AgentReads ==
    /\ Runs /\ tty = "shell" /\ step # "over"
    /\ JobStops
    /\ UNCHANGED <<step, ending, sigs, Fate, cause, History>>

LauncherHalts ==
    /\ launcher = "halting" /\ launcher' = "stopped"
    /\ UNCHANGED <<step, Life, sigs, Fate, History>>

AgentHalts ==
    /\ agent = "halting" /\ agent' = "stopped"
    /\ UNCHANGED <<step, launcher, ending, sigs, Fate, cause, History>>

AgentExits ==
    /\ Runs /\ agent' = "dead" /\ cause' = "itself"
    /\ UNCHANGED <<step, launcher, ending, sigs, Fate, History>>

\* A signal to the agent alone ends it.
KillAgent ==
    /\ Alive /\ Ended("stray")
    /\ UNCHANGED <<step, launcher, sigs, Fate, History>>

\* The pane closes: HUP to the job, which is continued if it was stopped.
Hangup ==
    /\ tty # "gone" /\ step # "over"
    /\ tty' = "gone" /\ Caught /\ launcher' = "running"
    /\ IF Alive THEN agent' = "dead" /\ cause' = "hangup" ELSE UNCHANGED <<agent, cause>>
    /\ ending' = "none"
    /\ UNCHANGED <<killed, record, History>>

\* TERM or HUP to the launcher alone.
KillLauncher ==
    /\ step # "over" /\ launcher = "running" /\ Caught
    /\ UNCHANGED <<launcher, Life, Fate, History>>

\* SIGCONT to the launcher or to the agent alone.
StrayToLauncher ==
    /\ launcher = "stopped" /\ strays < MaxStops
    /\ launcher' = "running" /\ strays' = strays + 1
    /\ UNCHANGED <<step, Life, sigs, Fate, asked, taken>>

StrayToAgent ==
    /\ Stopped /\ strays < MaxStops
    /\ Continued /\ strays' = strays + 1
    /\ UNCHANGED <<step, launcher, sigs, Fate, asked, taken>>

\* The shell sees its job stopped and takes the terminal back.
ShellTakes ==
    /\ launcher = "stopped" /\ tty = "job"
    /\ tty' = "shell" /\ taken' = taken + 1
    /\ UNCHANGED <<step, launcher, Life, sigs, killed, record, asked, strays>>

\* fg gives the job the terminal and continues it.
Fg ==
    /\ tty = "shell" /\ step # "over"
    /\ tty' = "job" /\ launcher' = "running" /\ Continued
    /\ UNCHANGED <<step, sigs, killed, record, History>>
-----------------------------------------------------------------------------
\* The launcher takes a step of its own.
Step(from, to) == step = from /\ launcher = "running" /\ step' = to

\* wait4 returns; with a stop pending the launcher gets no further than this.
WaitStopped ==
    /\ step = "wait" /\ launcher # "stopped" /\ agent = "stopped"
    /\ agent' = "read" /\ step' = "check"
    /\ UNCHANGED <<launcher, ending, sigs, Fate, cause, History>>

WaitEnded ==
    /\ step = "wait" /\ launcher # "stopped" /\ agent = "dead"
    /\ agent' = "reaped" /\ step' = "reap"
    /\ UNCHANGED <<launcher, ending, sigs, Fate, cause, History>>

\* Mutant of Check: every stop wait4 reports stops the launcher.
CheckNothing ==
    /\ Step("check", "stop")
    /\ UNCHANGED <<launcher, Life, sigs, Fate, History>>

\* isStopped: the stop may be over by now.
IsStopped == Stopped

Check ==
    /\ Step("check", IF IsStopped THEN "stop" ELSE "wait")
    /\ UNCHANGED <<launcher, Life, sigs, Fate, History>>

\* stopSelf: the stop takes hold before the call returns.
StopSelf ==
    /\ Step("stop", "continue") /\ launcher' = "stopped"
    /\ UNCHANGED <<Life, sigs, Fate, History>>

\* Mutant of ContinueAgent: fg has continued the agent.
ContinueLauncherOnly ==
    /\ Step("continue", "wait")
    /\ UNCHANGED <<launcher, Life, sigs, Fate, History>>

\* The launcher is continued, and so must the agent be.
ContinueAgent ==
    /\ Step("continue", "wait") /\ Continued
    /\ UNCHANGED <<launcher, sigs, Fate, History>>

\* The goroutine that passes a signal on; the agent may be gone already.
Pass ==
    /\ sigs > 0 /\ launcher = "running" /\ step # "over"
    /\ sigs' = sigs - 1 /\ killed' = "yes" /\ Ended("passed")
    /\ UNCHANGED <<step, launcher, tty, record, History>>

\* signal.Stop and close: what is in the channel stays there to be read.
Reap ==
    /\ Step("reap", "drain")
    /\ UNCHANGED <<launcher, Life, sigs, Fate, History>>

\* Mutant of Drain: it does not wait for the goroutine.
DrainNothing ==
    /\ Step("drain", "finish")
    /\ UNCHANGED <<launcher, Life, sigs, Fate, History>>

\* The goroutine is done once the channel is empty.
Drain ==
    /\ Step("drain", "finish") /\ sigs = 0
    /\ UNCHANGED <<launcher, Life, sigs, Fate, History>>

FinishRun ==
    /\ Step("finish", "over")
    /\ record' = IF killed = "yes" THEN "killed" ELSE "exited"
    /\ UNCHANGED <<launcher, Life, sigs, killed, tty, History>>

Kernel == LauncherHalts \/ AgentHalts
Launcher ==
    WaitStopped \/ WaitEnded \/ Check \/ StopSelf \/ ContinueAgent \/ Reap \/ Drain \/ FinishRun

JNext ==
    \/ AgentStops \/ CtrlZ \/ AgentReads \/ AgentExits \/ KillAgent \/ Hangup \/ KillLauncher
    \/ StrayToLauncher \/ StrayToAgent \/ ShellTakes \/ Fg \/ Kernel \/ Launcher \/ Pass

JSpec == JInit /\ [][JNext]_jvars

\* The kernel delivers signals, and the launcher and its goroutine run unless
\* they are stopped.
JFairness ==
    WF_jvars(LauncherHalts) /\ WF_jvars(AgentHalts) /\ WF_jvars(Launcher) /\ WF_jvars(Pass)
-----------------------------------------------------------------------------
\* Every variable keeps its type.
JTypeOK ==
    /\ step \in {"wait", "check", "stop", "continue", "reap", "drain", "finish", "over"}
    /\ launcher \in {"running", "halting", "stopped"}
    /\ agent \in {"running", "halting", "stopped", "read", "dead", "reaped"}
    /\ ending \in {"none", "stray", "passed"}
    /\ sigs \in 0..MaxSignals /\ killed \in {"no", "yes"} /\ tty \in {"job", "shell", "gone"}
    /\ record \in {"none", "killed", "exited"}
    /\ cause \in {"none", "itself", "stray", "hangup", "passed"}
    /\ asked \in 0..MaxStops /\ taken \in Nat /\ strays \in 0..MaxStops

\* "A stop read just before the launcher's own is over by the time it runs
\* again": fg is not undone. The shell takes the terminal at most once for each
\* time someone stopped the agent or the job, as long as nobody else continues
\* them.
FgSticks == strays = 0 => taken <= asked

\* "SIGTERM and SIGHUP are passed on: a kill": an agent that ended with its pane,
\* or by a signal passed on, is recorded as killed, which keeps its session.
HangupIsKill == record # "none" /\ cause \in {"hangup", "passed"} => record = "killed"

\* "Continued: by fg, or by a signal to the launcher alone, which must not leave
\* the agent stopped": they stop together and go on together.
StopTogether == (launcher = "running" /\ Stopped) ~> (launcher = "stopped" \/ ~Stopped)
=============================================================================
