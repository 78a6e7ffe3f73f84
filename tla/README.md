# TLA+ models of tmux-plugins

This folder models the parts of tmux-plugins whose correctness depends on what
happens *between* two tmux calls, two file operations or two processes:
tmux-revive's saving and restoring, tmux-agent's flags, sessions, window titles
and job control, and tmux-warp's labels. TLC checks each model on
small instances; TLAPS proves their invariants and action properties for every value
of their constants.

```
tlc -config SaveProtocol.cfg MCSaveProtocol            # a run; PROJECT.json lists all
tlapm SaveProtocol_proofs.tla                          # the proofs of a module
```

`PROJECT.json` maps every definition to the source lines it stands for, and
lists the runs, the hazards each property is for, the disagreements found
between code and documentation, and for every property a mutation of the model
that breaks it.

## 1. The system

| Component | State | Operations | Interacts with |
|---|---|---|---|
| tmux server (external) | sessions, windows, panes, their options | users open, close and edit; it may exit at any time | everything, one call at a time |
| `revive.Save`, `Forget`, `WaitIdle` | `queue.lock`, `save.lock`, the newest snapshot | save, forget-session, wait | hooks and the timer start saves; systemd is asked whether the machine stops |
| `snapshot.Store` | snapshot files by time, scrollback files by pane | Write, prune, Latest, At, WriteScrollback, PruneScrollback | Save under `save.lock`; the scrollback timer without it |
| `revive.Attach`, `Restore` | `attach.lock`, `@revive_ready` | attach, restore, tmux-init | the store, `save.lock`, then becomes a tmux client |
| `create` over `tmux.RunAll` | the lines printed so far | many windows with few calls | tmux, which may refuse or outlive a call |
| `typeInto` | where the prompt was | wait, type, look for the echo, Enter | the shell of a restored pane |
| scrollback `Capture`, `Paint` | scrollback files | capture, clean, print | the timer; each restored pane's shell |
| `attention.Core` | `@attention*` of panes and windows, `@attention_status` | Set, Clear, Seen, Sweep, Status, Redraw, List, Jump, KillSession | hooks, agents and users run commands at once, without a lock |
| agent `Hook`, `Launch`, `SweepAgents`, `Revive` | `@agent*` of a pane, the session records | Apply of each event, register, finish, SweepAgents | agents, under the agent lock; `@revive_cmd` is what a restore types |
| window titles | a window's name, automatic-rename and `@agent_title`, a pane's `@agent_named` | applyTitle, releaseTitle, SweepTitles | hooks, launchers and SweepAgents under the agent lock; SweepTitles and users without it |
| the launcher's job | the agent's process, the signals caught | wait, stop, continue, pass on, drain | the terminal, the shell's job control, anyone's signals |
| tmux-warp | an overlay and one option with a keypress | find matches, label, read keys, jump | a prompt of the client, which outlives the run that opened it |

The hard behaviour is of seven kinds. Saves come in bursts and read a server
that goes on changing, or goes down. A restore takes many calls, any of which
may fail or be cut off, beside terminals that open at the same moment. Files are
made, replaced and pruned by processes that may die between two steps. Flags
and counts are read in one call and written in another by commands that run at
once. Hooks come late, or not at all, in any order with launchers, sweeps and
restarts. Shells start late and lose keys. Signals, stops and continues reach a
launcher and its agent in any order.

What makes each part correct:

* *saves*: no change is lost for good, no older snapshot replaces a newer one,
  a forgotten session stays out, a shutdown takes nothing out;
* *store*: after a crash at any point the newest snapshot is the one written
  last; files that a kept snapshot refers to stay;
* *attach*: one restore per server, never onto live work; what is not restored
  yet stays in the snapshot; the terminal always gets a session;
* *create*: no window is made twice, every line belongs to its window, a
  refused command costs only itself;
* *flags*: windows and the status bar show what the panes hold; no live flag is
  dropped;
* *agent sessions*: a pane resumes its own session and no other, never an
  ended one or a one-turn run; a pending decision stays shown;
* *typing*: a restored shell runs the whole command saved for its pane, once, or
  the restore says it was not typed;
* *titles*: a name the user gave stays, and an agent's title goes with it;
* *the launcher's job*: launcher and agent stop together and go on together, fg is
  not undone, and a hangup is recorded as a kill;
* *tmux-warp*: the keys of a label lead to its match, whatever an earlier prompt
  left behind.

## 2. The modules

| Module | Models | Used by |
|---|---|---|
| `SaveProtocol` | save.go, with readPanes/build as steps, and both locks | `MCSaveProtocol`, `SaveHistory`, `SaveProtocol_proofs` |
| `SnapshotRegister` | abstract: a newest snapshot that never goes back | `SaveHistory` |
| `SaveHistory` | `SaveProtocol` with history variables, and the refinement mapping to `SnapshotRegister` | `SaveProtocol_proofs` |
| `SnapshotStore` | store.go, file operation by file operation, and the capture | `StoreHistory` |
| `StoreHistory` | `SnapshotStore` with the files a save found | `MCSnapshotStore`, `SnapshotStore_proofs` |
| `Attach` | attach.go, Restore, tmux-init, call by call | `MCAttach`, `Attach_proofs` |
| `CreateWindows` | create, refused, RunAll | `RestorePanes`, `RestorePanes_proofs` |
| `Typing` | typing.go: typeAll, typeInto and its three waits, with the shells | `RestorePanes`, `RestorePanes_proofs` |
| `RestorePanes` | `CreateWindows`, then `Typing` on the panes it made | `MCTerminals`, `RestorePanes_proofs` |
| `LaunchJob` | waitAgent, stopSelf and the signals of Launch | `MCTerminals` |
| `Warp` | labels, promptChar and runOverlayLoop | `MCTerminals` |
| `MCTerminals` | `RestorePanes`, `LaunchJob` and `Warp` in one run | `Terminals_proofs` |
| `Attention` | attention.go, and List and GoTo, call by call | `MCAttention`, `Attention_proofs` |
| `AgentSession` | hook.go, launch.go, sweep.go, Revive, on one pane | `MCAgentSession`, `AgentSession_proofs` |
| `AgentTitles` | applyTitle, releaseTitle, SweepTitles, on several panes | `MCAgentSession` |
| `MCAgentSession` | `AgentSession` and `AgentTitles` in one run | `AgentTitles_proofs` |

The `MC` modules add symmetry sets and the modes of the runs. `MCTerminals` and
`MCAgentSession` also put models that share nothing side by side: a variable
`part`, chosen at the start, says which of them moves, and the others stay in
their first states. `Attach`,
`Attention` and `AgentSession` have a variable `mode` that never changes: it is
chosen at the start from the constant `Modes` and says what else may happen
(users, failures, lost hooks, ...). A property that the code keeps only while
some of these stay away says so in its formula; section 5 says what happens
otherwise. One run then covers all modes.
Definitions under a comment "Mutant of ..." are the mutations of `PROJECT.json`;
no specification uses them.

### SaveProtocol

A pane stands for a session with one pane. `live` is the server, `saved` the
newest snapshot, `snap[p]` what process p has read, `pc[p]` the point of the
code it is at; `queue` and `save` are the holders of the two lock files.
`TryQueue`, `Coalesce`, `Settle`, `Acquire` and `Unqueue` are the lines of
`Save`; `Read` is readPanes, `Build` the calls after it (programs are looked up
in /proc after the panes were listed, so a pane that is gone by then shows no
program); `Unchanged`, `Stopping`, `Checked` and `Write` are `commit`. `Forget`
and `Drop` are the two halves of `Forget`, `StartRestore`, `RestorePane` and
`EndRestore` a restore, `StartIdle` to `EndIdle` `WaitIdle`. `Abort` is a kill,
a timeout or a failed call at any point. `ShutdownBegins` and `Reboot` are
systemd's. `SystemdStopping` is asked once, in the step that compares: `Stopping`
has its answer, and `Unheard` is a systemctl that is missing, fails or does not
answer within its second, for which the code takes the machine to go on.

`dropped` holds the sessions whose forget has returned without an error while
they were there and marked and the machine ran. The code returns no error in two
more cases, when the server went while forget waited for the lock and when the
machine is stopping; the session then stays in the snapshot (section 5).

`changes` records whether a change went by that no save was asked for, whose
save failed, or whose save met a WaitIdle at the queue lock; `NoLostChange`
promises nothing then, `CatchesUp` does.

### SnapshotStore

`files` maps the time in a file's name to its content. `Commit` takes the clock,
`Rename` is writeAtomic under the next free name, `Remove` and `Prune` follow, and
`Crash` may come between any two. The capture lists panes, writes files, lists and
loads snapshots one by one, and prunes, all without the save lock. `crossed`
records that a save and a prune of the scrollback overlapped; `StepsBack` lets the
clock step back. `StoreHistory` remembers in `before` the files a save found when
it chose the one to replace. A restore of an older snapshot by hand reads files
and changes none; it is left out, as are temporary files, which no reader looks
at.

### Attach

`windows[n]` counts a session's windows up to two, which is what `bare` tells
apart. Each process runs attach or restore; every tmux call of theirs is a step
(`Look`, `Judge`, `Latest`, `LockSave`, `MakeSession`, ...). A mode is a set of
what may happen meanwhile: `"users"` open and close sessions, calls time out or
fail (`"fails"`), processes are killed (`"killed"`). A save by a hook is one step
here, since `SaveProtocol` takes it apart, and a session is restored as a whole.
`owed` is what the snapshot still owes this server, `made` what restores made.
Every call may fail in the modes with `"fails"`: `Judge` takes a ready mark that
cannot be read for none, `MarkReady`, `EndRestore` and `NewMain` may leave it unset,
and `GiveUp` is a lock, a list of the sessions or a new main that fails, after which
Attach returns no target and `Become` is `new-session -A -s main`. `lapsed` remembers
that the mark of a server restored onto could not be set or read, `gaveUp` the
terminals that gave up.

### CreateWindows

Commands are numbered; `made[i]` counts the windows of command i, `lines` is
what `create` returns, a number for a command's line and 0 for "". A batch may
carry any number of commands, so the byte limit of `Batches` does not matter.
`Lose` is a call that timed out with tmux still at work: `left` is what tmux may
run later. The restore calls `create` three times, for sessions, windows and
splits, with the same code.

### Typing and RestorePanes

The saved text of a task is two parts, `head` and `tail`, so that a shell can lose
one of them. `keys[p]` is what tmux sent to pane p and the shell has not read,
`line[p]` what its line editor holds, `ran[p]` what it ran. A shell is `early` from
its start until it reads: one of `Drops` loses the first keys it was sent, any
number of them, and shows nothing; in the others the terminal echoes. The
actions are the calls of `typeInto` in their order. `Prompt` needs no prompt: the code
takes a still screen for one after two seconds. `NoEcho` may come at any time,
also when the text is about to show, so the next attempt types onto whatever is
there. `Apparent` are the texts that show in the rows waitEcho captures although
the shell does not hold them: the prompt contains them, or the terminal echoes what
a starting shell then drops; `Shows` is true of them from the first key on.
`FailSent` is a call that was lost although its keys arrive. `TypeMade` of
`RestorePanes` is the end of `finish`: line i of `create` is the pane of task i. It
forgets the rest of create's state, which is of no more use.

### LaunchJob

`step` is the place of the launcher in `Launch` and `waitAgent`; `launcher` and
`agent` are the states of the two processes. A stop signal makes a process
`halting` first, and it is stopped before it runs on; the launcher may still
return from wait4 with a stop pending, as the kernel lets it, but goes no
further. `read` is an agent whose stop wait4 has reported. `Fg` and `Hangup` reach
both processes, `StrayToLauncher` and `StrayToAgent` one. `sigs` is the launcher's
channel, which `Pass` empties beside the wait loop. `asked`, `taken` and `strays`
count for `FgSticks`, and `cause` remembers how the agent ended for `HangupIsKill`.

### Warp

Matches are numbered by their distance, so match i gets label i. `Labels[r]` is what
generateLabels has after r rounds of its loop, and `Rounds(n)` how many it makes for
n matches. A query starts a
run; `Press` answers an open prompt, which may be that of a run that has given
up, at any time. `Query` closes such a prompt: on one client the query's prompt
takes its place. `want` is the match the user has in mind, and `strayed` says that
they pressed another key than its label's next.

### Attention

The record `cmd[r]` is the command runner r is in: `at` is the tmux call it makes
next, a step of its own, `pane` and `want` the pane and the flag it is about. A
sweep (`sweeping`) holds the stale panes `left` to drop and whether it `dropped`
one; `counts` says that the counts follow, `look` is the pane Seen then looks at.
`On`, `StatusCalls` and `ListCalls` are the commands handlers begin with, `Swept`
and `Rest` what follows a flag of a sweep and a rendering. When a pane is gone
(`Missing`), a sweep goes on to its next flag and any other command ends, as
`isGone` has it. `flag` is a pane's @attention, owner and failed mark, `rolled` the
window's, `status` the counts. `due` counts hooks of closed panes tmux has yet to
run. A mode says how many commands run at once, which flags programs set, in which
windows the panes are, whether panes close and move, and whether tmux-init
redraws. The order of a list is left open. Reasons, times, marks, colours and
notifications are left out.

### AgentSession

One pane: `pane` holds its @agent options and its resume command (`revive`),
`record` the store's session records, `run` the agent processes, `hook` the
event each agent waits on. A hook, `register`, `finish` and the second half of
`SweepAgents` run under the agent lock, so each is one step on what only they
write; what is read before the lock (`SweepList`) is a step of its own. `Seen` and
`Sweep` are attention's, take no lock, and may have a hook between what they read
(`FlagRead`) and what they clear (`FlagCleared`); `OwnerAway` is what Sweep takes for
an owner that is gone, an agent that Ctrl-Z stopped included. `back` is the session a
restore types the resume of. `OneShotHook` finds the arguments of an agent only
while the agent is there. A decision may name no tool (`Nobody`), and the next
tool that ends then drops it. When the wait for the lock runs out, `register` and
`finish` have used up the time of their own calls (`RegisterLate`,
`FinishLate`). A hook that goes ahead without the lock runs as one step all the
same: its interleaving with another handler is not modelled. A mode holds the
sessions, the tools and the ways things go wrong: `"bare"` runs an agent without the
launcher, `"lost"` loses hooks, `"busy"` lets the wait for the lock run out, `"late"`
applies a hook after its agent is gone, `"jobs"` has two agents in the pane, `"slow"`
lets hooks into the middle of Seen and Sweep. Transcripts and the filter of nested
agents are left out.

### AgentTitles

`win` is what tmux knows of each window, `term` of each pane. Hooks, launchers and
SweepAgents hold the agent lock, but no lock keeps users, panes and SweepTitles
away: `Read` is readLive, what it found stays in `held`, and `TurnEnd`, `End`,
`FinishTitle` and `SweepGone` judge by it steps later, or leave the title alone
(`Leave`). SweepTitles takes no lock: `SweepRead` is its one list, and it comes to
the listed windows one by one, with up to `MaxMeanwhile` other steps between.
`given` holds the windows that their user named, without those a hook that had read
another name then named over (`Overtakes`) or a resume named; `slipped` those whose
agent's name lost its mark to a list read before it was set (`Slips`). `sweep =
"done"` says that a sweep has ended and nothing has happened since its list. A
session's title is the session itself. `shape` says how many windows and sessions
there are.

## 3. The runs

Eight runs pass:

| Run | Bounds and modes | Properties |
|---|---|---|
| `SaveProtocol` | 3 processes (one may run WaitIdle), 1 pane, a resume command and a program | `TypeOK`, `LocksHeld`, `NoLostChange`, `ForgottenStaysOut`, `ShutdownKeeps` |
| `SaveHistory` | 2 processes, 1 pane, fairness | `NeverGoesBack`: implements `SnapshotRegister`; `CatchesUp` |
| `SnapshotStore` | 2 panes, 2 files kept, 4 moments; crashes, captures | `NewestIsLast`, `PruneKeepsNewest`, `ScrollbackKept`, `DetailsPushNothingOut` |
| `Attach` | 2 processes, 1 session and main; calm, with failures, with failures and kills, with users | `TypeOK`, `RestoredOnce`, `OwedStaysCalm`, `LiveWorkAlone`, `NoStrayMain`, `GetsSession` |
| `Attach_live` | 2 processes, 2 sessions (one a terminal skips) and main, kills, fairness | `Opens` |
| `Terminals`, a restore | 5 panes, 2 of them with a command, one of these for a shell that loses keys and one that its prompt shows, or 1 with a newline in it; 2 attempts, one pane at a time; refusals and losses, fairness | `TypesOK`, `MadeOnce`, `LinesMatch`, `RefusedCostsItself`, `OnlyWholeCommands`, `CommandsRunOrTold` |
| `Terminals`, a launcher | 2 stops, 2 strays, room for 1 signal, fairness | `FgSticks`, `HangupIsKill`, `StopTogether` |
| `Terminals`, tmux-warp | 2 keys, up to 5 matches, so labels of 1, 2 and 3 keys | `LabelsLead` |
| `Attention` | 2 panes; one command at a time in 2 windows with panes that move and close, one at a time in a still window, two at once | `TypeOK`, `CountsRight`, `StillWindowsRight`, `SweptBeforeCounted` |
| `AgentSession`, sessions | 2 runs, a one-turn session, one decision at a time; 2 sessions with every hook heard, 2 tools with 1 session, and 1 session with lost hooks, late hooks, a busy lock, jobs, or slow Seen and Sweep | `TypesOK`, `ReviveNamesSession`, `OneShotStays`, `EndedLetGo`, `PendingStays`, `RecordAgrees`, `ListedKept` |
| `AgentSession`, titles | 2 panes in 1 or 2 windows, 1 or 2 sessions, one step in the middle of a sweep, any number in the middle of a hook | `NamesBelong` |

Why the bounds are enough to be interesting: with three processes one save runs,
one waits and one coalesces, which is the whole protocol of the two locks, and a
pane takes every kind of value a snapshot tells apart; two panes in the store make
snapshots that refer to an old and a new file; two files kept and four snapshots
prune, replace and leave leftovers of a crash; two terminals (or a terminal and a
restore), users and hooks are all the actors of a race for attach's lock; five
commands allow a batch, a refusal, a retry and a second batch with a lost call; a
shell that loses keys and one that does not, with one place for typing, give every
order of the two tasks, and two attempts a retry on top of what the first left;
two stops give a second one at every point of the first; two keys and five matches
give labels of every length up to three and a last level that is not full; two
windows and two panes give a pane that moves away from, or into, a window another
agent has named; two runs give every overlap of a late hook or sweep with a later
run, and two tools a decision beside a tool that ends.

Named bounds: `MaxTime` (moments of the clock), `MaxAsks` (decisions an agent
waits on at once), `Attempts`, `Parallel`, `MaxStops`, `MaxMatches`, `MaxMeanwhile`
(steps in the middle of one SweepTitles), `MaxSignals` (the code's channel holds
eight signals), two windows a session in `Attach`, one forget of a session at
a time in `SaveProtocol`, and session ids that are never reused (the code's
agents draw them at random).

Four runs are violated, each a disagreement between what the repository says
and what the code does (the quotes are in `PROJECT.json`):

| Run | Property | What happens |
|---|---|---|
| `SnapshotStore_clock` | `WrittenStays` | after the clock stepped back a save prunes its own snapshot |
| `Attach_timeout` | `OwedStays` | a restore that timed out is marked done, and the next save drops the rest |
| `Attention_rollup` | `WindowsRight` | a window keeps the flag of a pane that closed or moved |
| `Attention_owner` | `OwnerNamed` | setting the state a pane already has leaves the old owner |

`CHECK_DEADLOCK FALSE` stands where a bound lets the model stop (the clock of
the store, the one restore and the one agent of `Terminals`, agent runs that are
used up) or where a finished system has nothing more to do.

### Fairness

`SaveProtocol!Fairness`, used by `SaveHistory!HFairSpec`: the scheduler runs every
process that can go on (`WF` of `Working(p)`), and the scrollback loop's `tick`,
which sleeps, saves and captures for as long as the server lives, starts a save
now and then. Only what the program does by itself is fair: users, crashes and
shutdowns are not. `CatchesUp` assumes that at some time they leave the server
alone and running. `Attach!FairSpec`: every process that can go on does. The
locks are polled, so weak fairness of a step that waits for a lock is only
justified while the lock is free for good; both properties assume that the
competition ends.

`RestorePanes!RFairness`: `finish` goes on to type; each task of `typeAll` goes on to
its answer, by its own timeouts at the latest (a goroutine waits for nothing
else, and `Parallel` places are given back); each shell that starts comes to read
its keys. That commands end and panes close is not assumed.
`LaunchJob!JFairness`: the kernel delivers a signal that is pending, and the
launcher and its goroutine run unless they are stopped. Users, shells and the
agent are not fair. In a run of several parts, what the fairness of one part asks
of the others holds, as its actions are never enabled there.

## 4. What is proved

For every set of processes, panes, commands and programs, from the assumptions
on the constants named in `SaveProtocol` (the holder `Nobody` is no process or
pane; the kinds of values do not overlap):

* `SaveProtocol_proofs!TypeCorrect`, `LocksExclude`: types, and that the locks are
  held by exactly the processes between taking and releasing them. The second
  is inductive with the first.
* `ForgottenSessionsStayOut`: strengthened by what a save in flight may hold of a
  forgotten session, since a save that read before the mark writes after it
  only if it held the lock, and then the forget has not returned yet. It is about
  sessions that are there and marked when their forget returns on a running machine.
* `ShutdownLosesNothing`: strengthened by what the save in flight at the
  beginning of a shutdown agrees on with `guarded`; from then on the guard of
  `Checked` carries it, and `Unheard` takes out of `guarded` what its save found gone.
* `ChangesAreSaved`: strengthened by the relation between `changes`, the pending
  save and the newest snapshot, for every point of the save.
* `SaveProtocol_proofs!ProtocolImplementsRegister`: `HSpec` implies
  `SnapshotRegister`: initial states map to initial states and every step to
  `Change`, `Save`, `Drop` or a stutter. Its invariant says of a save in flight that
  its snapshot holds only what each pane has been since it was read.

For every number of commands, from `N \in Nat \ {0}`:

* `RestorePanes_proofs!TypeCorrect`, `NothingMadeTwice`, `LinesBelong`,
  `OthersAreMade`. The invariant relates the position `at`, the printed lines and
  what may be left of a lost call to how often each window is made: below the
  position exactly once or refused, above it not at all, save for a refused
  command line whose printed lines tell how far it came.

For any commands, saved panes, shells that lose keys and numbers of attempts and of
panes typed into at once, from `TypingAssumption` and `RestoreAssumption` (the tasks are
create's commands), of a whole restore, `RestorePanes!RSpec`:

* `RestorePanes_proofs!RestoreTypes`.
* `WholeCommandsRun` (`OnlyWholeCommands`). `CreateInv`: nothing is typed before
  `create` is over, and then the invariant of `create` says that the pane a task
  is given is its own. `Sent`: a line and the keys on their way to it are a run of
  texts, each cleared before the next, with Enter at most at the end. `Half`: a
  line holds, or is about to hold, a text that lost its first half. `PaneOk` says
  that only a shell that drops what comes early, and that reads by now, can have
  such a line, and that Enter is not on its way to it then: Enter follows a whole
  text that showed, which in such a shell is a line that holds it. That fails for
  a text of `Misread`, which seems to show in a shell that may lose it: there only
  the types and the answers are proved. When a command is told as not typed, the
  last key on its way is C-u, or the line is empty.

* `CreateKeepsItsWord`: `MadeOnce`, `LinesMatch` and `RefusedCostsItself` hold in
  the whole restore too, where typing forgets create's state. `HandedOn` says what
  `TypeMade` leaves of it.

For every number of stops and every size of the signal channel, from
`MaxStops \in Nat` and `MaxSignals \in Nat \ {0}`:

* `Terminals_proofs!JobTypes`.
* `HangupRecorded`: strengthened by `Told`. A hangup that ends the agent leaves its
  signal in the channel until it is passed on, which sets killed; the launcher
  reaches `finish` only with the channel empty, and by then it has read the end.
* `FgHolds`: strengthened by `Owed`, how many stops of the launcher are still to
  come of those asked for: one that is pending and the shell has not seen, one of
  the agent it has yet to answer, one it has already decided on.

For any two or more keys, none there twice, and any number of matches, from
`WarpAssumption`:

* `Terminals_proofs!LabelsLeadToMatches`. `OwnLabels`: the labels of one query are
  of one length and no two are the same, so no label begins another and a whole
  one belongs to one match. By induction over the rounds of generateLabels; the
  round it stops at exists because every round makes more labels. The library's
  induction theorem cannot be used here, so the induction is the statement that a
  set of numbers without a least member is empty. `LoopExists` proves that there
  is a function as `Labels` is defined: the prover takes a recursive function's
  equation for granted. `RunInv` and `WarpInv`: while the user has not strayed,
  what is collected, with the key that is in the option but not read yet, begins
  the label of the match they want, and the option is empty while a prompt is
  open.

The models that share a run move one at a time:

* `Terminals_proofs!PartsAreTheirOwn` and `AgentTitles_proofs!PartsAreTheirOwn`: a
  behaviour of the composed specification `MSpec` is one of each part's own
  specification, so every theorem above about a part holds of the run.
  `TerminalTypes` and `AgentTypes` are the runs' `TypesOK`.

For any panes, windows and sessions, and any number of steps in the middle of a
sweep, from `TitlesAssumption` (titles, the user's name and tmux's differ):

* `AgentTitles_proofs!TitlesInvariant` and `NamesStay`. `UsersKeep`: a window its user
  named was listed as one, since users do not act in the middle of a sweep; they do
  in the middle of hooks, and `Overtakes` takes out of `given` what a hook then names.
  `NameMarked`: a name that is neither tmux's nor the user's is the one the mark says,
  so the mark is enough to give it back. `Swept`: while nothing has happened since
  the list, it is still true, and the windows the sweep has come to stay as it
  left them.

For any terminals, restores, sessions and modes, from `AttachAssumption` (`main`
is none of the sessions, the holder `Nobody` none of the processes):

* `Attach_proofs!TypeCorrect`, `RestoredAtMostOnce`, `OwedStaysInSnapshot`,
  `NeverOntoLiveWork`, `NoMainBesideSessions`, `TerminalsGetSessions`. `LockHeld`:
  a process past its look at the server holds attach's lock, so at most one is
  there. `OnceInv`: unless the mark of a server restored onto could not be set or
  read (`lapsed`), such a server is ready, or the terminal that restored is still
  on its way to mark it. `UndisturbedInv`: without users, what a terminal has seen
  stays true, save for a main another terminal made, its target stays, and one
  that becomes a client without a target finds a main, unless it gave up.
  `CalmInv`: in the calm mode a ready server owes nothing, nor does one that a
  terminal is about to mark.

For any panes, scrollback files, number of kept files and length of the clock,
from `StoreAssumption`:

* `SnapshotStore_proofs!TypeCorrect` (no run checks it besides), and, for a clock
  that does not step back, `NewestReadable`, `PruneCorrect` and
  `SaveLeavesItsSnapshot`; the run `SnapshotStore_clock` shows that they need this
  hypothesis. `NewestInv`: the time a save commits to is later than every file, so
  the free name it renames to is that time; what it prunes by is the folder as it
  is, and the oldest of more than `Keep` files is not the one just written. That a
  set of times has a first and a last member is proved from the order of the
  naturals.
* `DetailsReplace`, for any clock, of `StoreHistory`. `HistoryInv`: a save of
  details replaces the newest of the files it found, so between its two file
  operations the folder holds one file more, after them no more than it found, and
  prune finds nothing to remove.
* `ScrollbackStays`, for any clock. `CaptureInv`: a capture knows of every live
  pane that has a file and, unless a save `crossed` it, of the panes of every
  snapshot it has loaded, so what it removes belongs to neither.

For any agent runs, sessions, tools and modes, from `SessionAssumption`:

* `AgentSession_proofs!TypeCorrect`.
* `OneShotNeverResumed`, in every mode in which no hook outlives its agent: a hook
  learns that a run is one-turn from the arguments of its agent among its live
  ancestors. `OneShotInv`: one-turn runs are in sessions of their own, and no hook of
  another run names one. `TurnInv`: a hook is a running agent's.
* `ReviveIsTheSessions`: what the pane resumes is the session that runs in it.
  `HookInv`: a hook is about the session its run is in, or has just left. `TurnInv`:
  one agent runs at a time. `TurnedInv`: a pane
  whose run is one-turn resumes nothing. `LaunchedInv`, `SessionInv`: the pane is
  that of the launcher and the session that run in it.
* `SweepKeepsKilled` (`ListedKept`), from the same invariants and what a sweep has
  listed.
* `EndedIsLetGo`. `OverInv`: for as long as the pane names an ended session, its
  agent's last hook or its launcher's finish is still to come.
* `PendingIsShown`, under `MaxAsks <= 1`, for a decision on a tool, in every mode in
  which hooks are heard, in time, and no other job or slow Seen or sweep gets in
  between (`InTime`); section 5 says what happens otherwise. `PendingInv`: the
  decision is on its way to the pane, or the pane waits on it and the hook in
  flight, if any, ends another tool.
* `RecordIsThePanes`, in the same modes. `RecordInv`: what `RecordAgrees` says of a
  pane that is one agent's, also while hooks other than a start are in flight.
  `DueInv`: only a slow Seen or sweep has a flag read and not cleared.

The proof of `SweepKeepsKilled` is why `ListedKept` asks for `OneWay`, a mode of at
most one of `"bare"`, `"lost"` and `"busy"`: when a one-turn run without a launcher
loses its start hook, a sweep that has listed it lets go of the session that was
killed in the pane before it. The modes of the run have one way
each, so TLC alone had not shown it.

For any panes, windows, programs and modes, from `AttentionAssumption` (the shell
is no program, `Nobody` none of the values; programs set no idle flag, and only
done ones as failed, as `Set` checks):

* `Attention_proofs!TypeCorrect`, with `CommandInv`, how the fields of a command fit
  its next call, and `MarkInv`: while one command runs, the pane it marks again
  still has the state it read.
* `StaleAreDropped`, however many commands run at once. `SweptInv`: what a command
  found stale is so still or was set anew, and its sweep has it left to drop.
* `StatusBarRight`. `CountedInv`: while one command runs, the bar is right or the
  command is on its way to render it (`WillCount`), and what it renders is what
  the panes hold by then. It rests on the hook of every closed pane, which is why
  it asks for `due = 0`.
* `WindowsStayRight`. `StillInv`: a window is right or the command is about to roll it
  up, with its panes as they are.

Every invariant and every action property of the passing runs is proved. Only
model-checked: liveness (`CatchesUp`, `Opens`, `CommandsRunOrTold`,
`StopTogether`), which the prover's temporal backend does not reach with fairness.

## 5. Limits

Some properties are conditional because the code does not keep more. What
happens outside their conditions, each seen in a trace of the same models:

* A save that dies between making its file and removing the one it replaces leaves
  a file too many, and the next save, even one of details, prunes an older
  snapshot for it (store.go:141-149). `DetailsPushNothingOut` asks for a folder
  without such a leftover.
* A save that meets WaitIdle at the queue lock leaves although nothing waits
  (save.go:69, 87-96). `changes` counts that as missed; the timer's save makes up
  for it (`CatchesUp`).
* A restore that loaded its snapshot before a forget makes the forgotten session
  again (cli.go:212). `ForgottenStaysOut` speaks of the snapshot only.
* A forget whose server goes while it waits for the lock, or whose machine is
  stopping, returns no error and leaves the session in the snapshot (save.go:172).
  `ForgottenStaysOut` leaves both out, although Forget's comment (save.go:158-160)
  does not.
* Without an answer from systemctl a save takes the machine to go on and writes
  what it found (revive.go:128-143). `ShutdownKeeps` then guards only what that save
  had not lost.
* The scrollback prune judges by the snapshots it listed: beside a save that
  replaces one it removes files the new snapshot refers to (store.go:229).
  `ScrollbackKept` leaves out what `crossed` records.
* A session that a user opens between the terminal's list and the first
  new-session is restored beside (attach.go:46), and one that a user closes
  before tmux attaches ends the terminal (cli.go:155). `LiveWorkAlone` and
  `GetsSession` leave users out.
* A ready mark that cannot be set, or cannot be read (attach.go:129), makes the next
  attach restore once more onto a server with one main.
  `RestoredOnce` leaves such a server out (`lapsed`), and also kills, after which a
  restore is rightly done again. A list of the sessions that fails makes a terminal
  give up the target its restore has chosen for a new main (attach.go:60);
  `NoStrayMain` leaves out only the terminals that gave up. Users beside failures are
  proved, but not run.
* After a restore that was killed half-way the next terminal takes what it made
  for live work and marks the server ready, and the next save drops the rest
  (attach.go:46). `OwedStaysCalm` leaves kills out; older snapshots stay for a
  restore by hand.
* Two commands of tmux-agent at once: Seen clears a needs-you set since it
  looked (attention.go:326-330), Sweep drops a flag set anew since
  it listed the panes (attention.go:412), and of two Status commands the older counts
  may be written last (attention.go:482). `CountsRight` and `StillWindowsRight` are
  about one command at a time; the next flag renders the counts again. A Set that
  marks a done flag failed after another command cleared it leaves the mark on an
  idle pane (attention.go:241-257), so `TypeOK` speaks of failed panes for one
  command at a time only; roll-ups and counts look at the mark of done panes alone.
* Sweep drops an agent's flag whenever its command is not the one in the pane's
  foreground (attention.go:408), as when Ctrl-Z has stopped it. `PendingStays` and
  `RecordAgrees` are about a pane of one agent that nobody stops (`Alone`), and leave
  out the modes with jobs and with slow Seen and sweeps.
* Decisions: of two that are pending at once the second replaces the first
  (hook.go:385; the run has `MaxAsks = 1`, the proof assumes it); one that
  names no tool, a dialog or an agent's question (claude.go:156-159), is dropped by
  any tool that ends (hook.go:367). `PendingStays` is about decisions on tools.
* A hook applied after its agent is gone finds no arguments to tell a one-turn run
  by (procs.go:174-181): if no launcher has marked the pane, it leaves a resume
  command. `OneShotStays` leaves late hooks out.
* A hook applied after finish takes the ended session up again until the next
  SweepAgents; finish that spends its time on the lock lets nothing go
  (launch.go:199); a sweep that listed one session and finds another on the pane
  judges the run by the first (sweep.go:135). The conditions of `EndedLetGo` and
  `ListedKept` name these.
* A resume names its window although its user has named it since
  (hook.go:340): `NamesBelong` then counts the window as the agent's. A hook judges a
  window by what it read before its other calls and the transcript: the end of a
  turn names one that its user has just named (hook.go:407), and
  the end of a session turns on the automatic name of one (hook.go:466).
  `given` leaves such a name out. A list or a hook that read a window before it was
  named may take the mark of the name and leave the name, which then stays when the
  agent is gone (sweep.go:51-54, hook.go:465); `slipped` remembers that, and the second
  half of `NamesBelong` says nothing then. A user's name that equals a session's
  title, and users who name a window in the middle of a SweepTitles, are left out.
* The typing of a pane may run out of its thirty seconds, or lose a call, between
  the text and its Enter (typing.go:97): the text stays on the line, and the
  command is told as not typed. waitEcho looks at whole rows (typing.go:179-182), so
  a text that the prompt contains, or that a terminal echoed before a starting shell
  dropped it, counts as typed, and a shell that lost a part of it runs the
  rest; `OnlyWholeCommands` and `CommandsRunOrTold` leave such texts in
  such shells out (`Misread`). Users who type meanwhile are left out.
* `FgSticks` is about jobs that nobody else continues. After a stray SIGCONT to the
  agent the launcher may stop once more, and a SIGCONT that the launcher sends
  late may undo a second Ctrl-Z that came at once after fg (launch.go:133).
* tmux-warp is one run at a time on one client. A run whose query was cancelled
  polls on for ten seconds and takes the query of the next (input.go:35).

## 6. Not modelled

Pickers, popups and the text of notifications; the search for matches, the
overlay and the cursor keys of tmux-warp; argument parsing, JSON and /proc
parsing, shell quoting and zsh/bash snippets: formatting and pure I/O. Two
pickers that kill sessions at once may leave none (jump.go:27): the code does not
prevent it, so there is no property to check. The test harness and the self
tests. Layouts, zoom and the active window of a restored session: they are set
by commands that are safe to run twice and fail one by one. A capture between
the making of a restored pane and its paint (scrollback.go:18) needs the store and
the panes in one model, and would only show that the file is overwritten.

## 7. Plan

1. (done) `SaveProtocol` and its register, `SnapshotStore`, `Attach`,
   `CreateWindows`, `Attention`, `AgentSession`; proofs of `SaveProtocol`, its
   refinement, and `CreateWindows`.
2. (done) `Typing` on the panes of `CreateWindows`, `AgentTitles` and `LaunchJob` with
   their proofs, `Warp`.
3. (done) Proofs of `SnapshotStore`, `Attach`, `AgentSession` and `Attention`.
4. (done) Proof of `OnlyWholeCommands` over a whole restore.
5. (done) Proofs of `LabelsLead`, of create's properties in a whole restore, of
   `DetailsPushNothingOut`, and of the composed models.
6. (done) What fails or is heard late: unanswered systemctl, ready marks that cannot
   be read or set, hooks of agents that are gone, reads without a lock, texts that only
   seem to show.
7. Left: the operators of snapshot.go (Equal, Lost, LostCommands) on full snapshots;
   the capture and the paint of one restored pane in one model.
