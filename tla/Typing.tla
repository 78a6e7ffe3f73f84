-------------------------------- MODULE Typing --------------------------------
(***************************************************************************)
(* typeAll and typeInto: the commands of restored panes are typed into     *)
(* their shells, a few panes at once, each until its text shows and then   *)
(* Enter.  A shell may be slow to start, draw late and lose what is typed  *)
(* before it reads; tmux calls may be lost, and panes may close.           *)
(***************************************************************************)
EXTENDS Integers, Sequences, FiniteSets, SequencesExt

CONSTANTS
    Tasks,      \* the panes of a restore, each with the command saved for it
    Attempts,   \* typeAttempts
    Parallel,   \* typeParallel
    Control,    \* the tasks whose command holds a newline
    Drops,      \* the panes whose shell may lose what comes early, and where
                \* nothing shows before it reads; in the others the terminal
                \* echoes, and nothing is lost
    Apparent,   \* the tasks whose text shows also elsewhere than on the line the
                \* shell reads: in its prompt, or as the echo of lost keys
    Nobody      \* no pane was made

ASSUME TypingAssumption ==
    /\ Attempts \in Nat \ {0} /\ Parallel \in Nat \ {0} /\ Control \subseteq Tasks /\ Drops \subseteq Tasks
    /\ Apparent \subseteq Tasks

VARIABLES
    pane,       \* the pane each task types into
    pc,         \* where each task is
    attempt,
    shell,      \* of each pane: "tmux" (paint, before its shell), "early" (not
                \* yet reading), "reading", "running" (a command), "closed"
    keys,       \* of each pane: keys it was sent and has not read
    line,       \* what its line editor holds
    ran         \* the lines it ran

tvars == <<pane, pc, attempt, shell, keys, line, ran>>

Answers == {"typed", "control", "notTyped", "failed"}
Working == {"prompt", "send", "echo", "clear", "enter", "start"}

\* A text is two parts, so that half of it can be lost.
Enter(i) == <<i, "Enter">>
ClearLine(i) == <<i, "C-u">>
Whole(i) == <<<<i, "head">>, <<i, "tail">>>>
Text(i) == IF i \in Control THEN <<<<i, "head">>, Enter(i), <<i, "tail">>>> ELSE Whole(i)

ShellUp(p) == shell[p] \in {"early", "reading"}

\* What a key, and then keys one after the other, leave on a line.
Held(l, k) == IF k[2] = "C-u" THEN <<>> ELSE Append(l, k)
Typed(s) == FoldLeft(Held, <<>>, s)

Shown(p) ==
    CASE shell[p] = "reading" -> line[p]
      [] shell[p] = "early" /\ p \notin Drops -> Typed(keys[p])
      [] OTHER -> <<>>

\* Mutant of Shows: a part of the text is taken for the whole.
ShowsPart(i) == \E k \in 1..Len(Shown(pane[i])) : Shown(pane[i])[k][1] = i

\* The text shows in the rows from the prompt to the cursor.
Shows(i) ==
    i \in Apparent \/ \E k \in 1..(Len(Shown(pane[i])) - 1) : SubSeq(Shown(pane[i]), k, k + 1) = Whole(i)

TInit ==
    /\ pane = [i \in Tasks |-> Nobody]
    /\ pc = [i \in Tasks |-> "none"]
    /\ attempt = [i \in Tasks |-> 0]
    /\ shell = [p \in Tasks |-> "tmux"]
    /\ keys = [p \in Tasks |-> <<>>]
    /\ line = [p \in Tasks |-> <<>>]
    /\ ran = [p \in Tasks |-> <<>>]
-----------------------------------------------------------------------------
Goto(i, to) == pc' = [pc EXCEPT ![i] = to]
Open(i) == shell[pane[i]] # "closed"
Terminals == <<pane, shell, line, ran>>

\* finish hands typeAll a task for each pane that was made.
TypeAll(made) ==
    /\ \A i \in Tasks : pc[i] = "none"
    /\ pane' = made
    /\ pc' = [i \in Tasks |-> IF made[i] = Nobody THEN "none" ELSE "queued"]
    /\ UNCHANGED <<attempt, shell, keys, line, ran>>

\* Mutant of Start: a newline is typed like any text.
StartControl(i) ==
    /\ pc[i] = "queued" /\ Cardinality({j \in Tasks : pc[j] \in Working}) < Parallel
    /\ Goto(i, "prompt") /\ attempt' = [attempt EXCEPT ![i] = 1]
    /\ UNCHANGED <<keys, Terminals>>

\* A task gets its turn; a text with a newline is not typed at all.
Start(i) ==
    /\ pc[i] = "queued" /\ Cardinality({j \in Tasks : pc[j] \in Working}) < Parallel
    /\ Goto(i, IF i \in Control THEN "control" ELSE "prompt")
    /\ attempt' = [attempt EXCEPT ![i] = 1]
    /\ UNCHANGED <<keys, Terminals>>

\* waitPrompt: a shell in the foreground and a still screen, a prompt or not.
Prompt(i) ==
    /\ pc[i] = "prompt" /\ ShellUp(pane[i])
    /\ Goto(i, "send")
    /\ UNCHANGED <<attempt, keys, Terminals>>

\* A call that sends keys, and what comes after it.
Send(i, s, next) ==
    /\ Open(i)
    /\ keys' = [keys EXCEPT ![pane[i]] = @ \o s]
    /\ Goto(i, next)
    /\ UNCHANGED Terminals

SendText(i) == pc[i] = "send" /\ Send(i, Text(i), "echo") /\ UNCHANGED attempt

\* waitEcho sees the text.
Echo(i) ==
    /\ pc[i] = "echo" /\ Open(i) /\ Shows(i)
    /\ Goto(i, "enter")
    /\ UNCHANGED <<attempt, keys, Terminals>>

\* waitEcho gives up, after echoWait or when the pane is gone.
NoEcho(i) ==
    /\ pc[i] = "echo"
    /\ Goto(i, "clear")
    /\ UNCHANGED <<attempt, keys, Terminals>>

SendEnter(i) == pc[i] = "enter" /\ Send(i, <<Enter(i)>>, "start") /\ UNCHANGED attempt

\* waitStart waits for the program a while, and all is well either way.
Started(i) ==
    /\ pc[i] = "start"
    /\ Goto(i, "typed")
    /\ UNCHANGED <<attempt, keys, Terminals>>

\* Mutant of Clear: the last attempt leaves its text.
ClearNotLast(i) ==
    /\ pc[i] = "clear"
    /\ IF attempt[i] = Attempts
       THEN Goto(i, "notTyped") /\ UNCHANGED <<attempt, keys, Terminals>>
       ELSE /\ Send(i, <<ClearLine(i)>>, "prompt")
            /\ attempt' = [attempt EXCEPT ![i] = @ + 1]

\* Mutant of Clear: the last attempt counts as typed.
ClearTyped(i) ==
    /\ pc[i] = "clear"
    /\ IF attempt[i] = Attempts
       THEN Send(i, <<ClearLine(i)>>, "typed") /\ UNCHANGED attempt
       ELSE /\ Send(i, <<ClearLine(i)>>, "prompt")
            /\ attempt' = [attempt EXCEPT ![i] = @ + 1]

\* Whatever part arrived is cleared; then again, or no more.
Clear(i) ==
    /\ pc[i] = "clear"
    /\ IF attempt[i] = Attempts
       THEN Send(i, <<ClearLine(i)>>, "notTyped") /\ UNCHANGED attempt
       ELSE /\ Send(i, <<ClearLine(i)>>, "prompt")
            /\ attempt' = [attempt EXCEPT ![i] = @ + 1]

\* typeTimeout is over, the pane is gone, or tmux does not answer.
Fail(i) ==
    /\ pc[i] \in {"prompt", "send", "enter", "clear"}
    /\ Goto(i, "failed")
    /\ UNCHANGED <<attempt, keys, Terminals>>

\* The call is lost, but its keys arrive.
FailSent(i) ==
    /\ \/ pc[i] = "send" /\ Send(i, Text(i), "failed")
       \/ pc[i] = "enter" /\ Send(i, <<Enter(i)>>, "failed")
       \/ pc[i] = "clear" /\ Send(i, <<ClearLine(i)>>, "failed")
    /\ UNCHANGED attempt
-----------------------------------------------------------------------------
Programs == <<pane, pc, attempt>>

\* Paint is done and the shell starts.
ShellStarts(p) ==
    /\ shell[p] = "tmux"
    /\ shell' = [shell EXCEPT ![p] = "early"]
    /\ UNCHANGED <<keys, line, ran, Programs>>

\* The shell begins to read; one that drops has lost what came up to then, or
\* the first keys of it.
Reads(p) ==
    /\ shell[p] = "early"
    /\ shell' = [shell EXCEPT ![p] = "reading"]
    /\ \E k \in 0..(IF p \in Drops THEN Len(keys[p]) ELSE 0) :
           keys' = [keys EXCEPT ![p] = SubSeq(@, k + 1, Len(@))]
    /\ UNCHANGED <<line, ran, Programs>>

\* The shell reads a key.
ReadKey(p) ==
    /\ shell[p] = "reading" /\ keys[p] # <<>>
    /\ keys' = [keys EXCEPT ![p] = Tail(@)]
    /\ LET k == Head(keys[p]) IN
           IF k[2] # "Enter"
           THEN line' = [line EXCEPT ![p] = Held(@, k)] /\ UNCHANGED <<shell, ran>>
           ELSE /\ line' = [line EXCEPT ![p] = <<>>]
                /\ IF line[p] = <<>> THEN UNCHANGED <<shell, ran>>
                   ELSE /\ shell' = [shell EXCEPT ![p] = "running"]
                        /\ ran' = [ran EXCEPT ![p] = Append(@, line[p])]
    /\ UNCHANGED Programs

\* The command ends.
CommandEnds(p) ==
    /\ shell[p] = "running"
    /\ shell' = [shell EXCEPT ![p] = "reading"]
    /\ UNCHANGED <<keys, line, ran, Programs>>

Close(p) ==
    /\ shell[p] # "closed"
    /\ shell' = [shell EXCEPT ![p] = "closed"]
    /\ UNCHANGED <<keys, line, ran, Programs>>

TypeInto(i) ==
    \/ Start(i) \/ Prompt(i) \/ SendText(i) \/ Echo(i) \/ NoEcho(i) \/ SendEnter(i)
    \/ Started(i) \/ Clear(i) \/ Fail(i) \/ FailSent(i)

\* A pane that a task types into.
Used(p) == \E i \in Tasks : pane[i] = p

Shell(p) == Used(p) /\ (ShellStarts(p) \/ Reads(p) \/ ReadKey(p))

TNext ==
    \/ \E i \in Tasks : TypeInto(i)
    \/ \E p \in Tasks : Shell(p) \/ (Used(p) /\ (CommandEnds(p) \/ Close(p)))
-----------------------------------------------------------------------------
\* Every variable keeps its type.
TTypeOK ==
    /\ pane \in [Tasks -> Tasks \cup {Nobody}]
    /\ pc \in [Tasks -> Working \cup Answers \cup {"none", "queued"}]
    /\ attempt \in [Tasks -> 0..Attempts]
    /\ shell \in [Tasks -> {"tmux", "early", "reading", "running", "closed"}]
    /\ \A p \in Tasks : \A s \in {keys[p], line[p]} :
           s \in Seq(Tasks \X {"head", "tail", "C-u", "Enter"})

\* A text that seems to show, in a pane whose shell may lose it.
Misread == Apparent \cap Drops

\* "typeInto types text into the pane's shell and runs it, exactly once": a
\* shell runs nothing but the whole command saved for its pane, at most once,
\* and one that never showed it is left with an empty line.  A text that only
\* seemed to show, in a shell that may have lost half of it, is left out.
OnlyWholeCommands ==
    \A i \in Tasks :
        /\ i \notin Misread => ran[i] \in {<<>>, <<Whole(i)>>}
        /\ pc[i] = "notTyped" /\ shell[pane[i]] = "reading" /\ keys[pane[i]] = <<>> =>
               line[pane[i]] = <<>> /\ ran[pane[i]] = <<>>
=============================================================================
