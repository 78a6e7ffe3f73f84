--------------------------- MODULE CreateWindows ---------------------------
(***************************************************************************)
(* How a restore makes many windows and panes with few tmux calls: create  *)
(* over RunAll.  Each command makes one window and prints one line.  tmux  *)
(* stops a command line at the first command it refuses; a call may also   *)
(* be lost (a timeout, a server that is gone) with tmux still at work.     *)
(***************************************************************************)
EXTENDS Integers, Sequences

CONSTANT N    \* how many commands

ASSUME CreateAssumption == N \in Nat \ {0}

Commands == 1..N
None == 0     \* the line "" of a command that failed

VARIABLES
    phase,     \* "all": RunAll goes on; "refused", "lost": it failed;
               \* "alone": the next command runs on its own; "done"
    at,        \* the next command RunAll sends
    out,       \* the lines it has printed
    lines,     \* what create returns
    made,      \* how often each command made its window
    left,      \* what tmux may still run of a lost call: <<first, last>>
    refused,   \* history: commands refused on their own
    calls      \* history: "answered", or "lost" once a call was lost

vars == <<phase, at, out, lines, made, left, refused, calls>>

Run(a, b) == [i \in 1..(b + 1 - a) |-> a + i - 1]
Made(a, b) == [i \in Commands |-> IF i \in a..b THEN made[i] + 1 ELSE made[i]]

Init ==
    /\ phase = "all" /\ at = 1 /\ out = <<>> /\ lines = <<>>
    /\ made = [i \in Commands |-> 0]
    /\ left = <<1, 0>> /\ refused = {} /\ calls = "answered"
-----------------------------------------------------------------------------
\* One call with the commands up to k, as many as fit, and all succeed.
Batch(k) ==
    /\ phase = "all" /\ k \in at..N
    /\ out' = out \o Run(at, k) /\ made' = Made(at, k)
    /\ at' = k + 1
    /\ UNCHANGED <<phase, lines, left, refused, calls>>

\* tmux refuses a command after it ran up to j: the next one, or what comes
\* with j (a layout).
Refuse(j) ==
    /\ phase = "all" /\ at <= N /\ j \in (at - 1)..N
    /\ out' = out \o Run(at, j) /\ made' = Made(at, j)
    /\ phase' = "refused"
    /\ UNCHANGED <<at, lines, left, refused, calls>>

\* The call is lost after tmux ran up to j of it and printed up to i; it may
\* go on up to k.
Lose(i, j, k) ==
    /\ phase = "all" /\ k \in at..N /\ j \in (at - 1)..k /\ i \in (at - 1)..j
    /\ out' = out \o Run(at, i) /\ made' = Made(at, j)
    /\ left' = <<j + 1, k>>
    /\ phase' = "lost" /\ calls' = "lost"
    /\ UNCHANGED <<at, lines, refused>>

\* tmux runs one more of the lost call.
Leftover ==
    /\ left[1] <= left[2]
    /\ made' = Made(left[1], left[1])
    /\ left' = <<left[1] + 1, left[2]>>
    /\ UNCHANGED <<phase, at, out, lines, refused, calls>>

Pad(s) == [i \in Commands |-> IF i <= Len(s) THEN s[i] ELSE None]

\* Mutant of Collect: a lost call counts as refused.
CollectRetry ==
    /\ phase \in {"refused", "lost"} \/ (phase = "all" /\ at > N)
    /\ IF phase = "all" \/ Len(lines \o out) = N
       THEN phase' = "done" /\ lines' = Pad(lines \o out)
       ELSE phase' = "alone" /\ lines' = lines \o out
    /\ out' = <<>>
    /\ UNCHANGED <<at, made, left, refused, calls>>

\* Mutant of Collect: the refused command is given its empty line at once.
CollectSkip ==
    /\ phase \in {"refused", "lost"} \/ (phase = "all" /\ at > N)
    /\ IF phase # "refused" \/ Len(lines \o out) + 1 >= N
       THEN phase' = "done" /\ lines' = Pad(lines \o out)
       ELSE phase' = "alone" /\ lines' = lines \o out \o <<None>>
    /\ out' = <<>>
    /\ UNCHANGED <<at, made, left, refused, calls>>

\* RunAll is over: its lines are those of the first commands.
Collect ==
    /\ phase \in {"refused", "lost"} \/ (phase = "all" /\ at > N)
    /\ IF phase # "refused" \/ Len(lines \o out) = N
       THEN phase' = "done" /\ lines' = Pad(lines \o out)
       ELSE phase' = "alone" /\ lines' = lines \o out
    /\ out' = <<>>
    /\ UNCHANGED <<at, made, left, refused, calls>>

\* The next command on its own.
Current == Len(lines) + 1

\* The next line is known; RunAll takes the rest.
Continue(line) ==
    /\ lines' = lines \o <<line>>
    /\ at' = Current + 1
    /\ phase' = IF Current = N THEN "done" ELSE "all"

\* It succeeds, or only what comes with it is refused.
Alone ==
    /\ phase = "alone"
    /\ Continue(Current) /\ made' = Made(Current, Current)
    /\ UNCHANGED <<out, left, refused, calls>>

\* Mutant of AloneRefused: its line is taken for granted.
AloneTrusted ==
    /\ phase = "alone"
    /\ Continue(Current)
    /\ refused' = refused \cup {Current}
    /\ UNCHANGED <<out, made, left, calls>>

AloneRefused ==
    /\ phase = "alone"
    /\ Continue(None)
    /\ refused' = refused \cup {Current}
    /\ UNCHANGED <<out, made, left, calls>>

\* Mutant of AloneLost: the command after it was sent with it.
AloneLostTwo ==
    /\ phase = "alone"
    /\ lines' = Pad(lines)
    /\ left' = <<Current, Current + 1>>
    /\ phase' = "done" /\ calls' = "lost"
    /\ UNCHANGED <<at, out, made, refused>>

\* It ran, will run or will not; its line came or did not.
AloneLost ==
    /\ phase = "alone"
    /\ \/ \E line \in {None, Current} :
             /\ lines' = Pad(lines \o <<line>>)
             /\ made' = Made(Current, Current) /\ UNCHANGED left
       \/ /\ lines' = Pad(lines)
          /\ left' = <<Current, Current>> /\ UNCHANGED made
    /\ phase' = "done" /\ calls' = "lost"
    /\ UNCHANGED <<at, out, refused>>

Next ==
    \/ \E j \in 0..N : Batch(j) \/ Refuse(j)
    \/ \E i, j, k \in 0..N : Lose(i, j, k)
    \/ Leftover \/ Collect \/ Alone \/ AloneRefused \/ AloneLost

Spec == Init /\ [][Next]_vars
-----------------------------------------------------------------------------
\* Every variable keeps its type.
TypeOK ==
    /\ phase \in {"all", "refused", "lost", "alone", "done"}
    /\ at \in 1..(N + 1)
    /\ out \in Seq(Commands) /\ Len(out) <= N
    /\ lines \in Seq(0..N) /\ Len(lines) <= N
    /\ made \in [Commands -> Nat]
    /\ left \in (1..(N + 1)) \X (0..N)
    /\ refused \subseteq Commands /\ calls \in {"answered", "lost"}

\* "Nothing in it runs again": whatever tmux refuses and whichever call is
\* lost, no window is made twice.
MadeOnce == \A i \in Commands : made[i] <= 1

\* "create returns each command's line": a line in some command's place is
\* of the window that command made.
LinesMatch == \A i \in 1..Len(lines) : lines[i] # None => lines[i] = i /\ made[i] = 1

\* "One command tmux refuses costs only itself": when no call is lost every
\* command is made, or was refused on its own.
RefusedCostsItself ==
    phase = "done" /\ calls = "answered" => \A i \in Commands : lines[i] = i \/ i \in refused
=============================================================================
