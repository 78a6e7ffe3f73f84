----------------------------- MODULE RestorePanes -----------------------------
(***************************************************************************)
(* A restore makes its panes (CreateWindows) and then types their commands *)
(* (Typing): each line create returned is the pane its command is typed    *)
(* into.                                                                   *)
(***************************************************************************)
EXTENDS CreateWindows, Typing

CONSTANT Saves    \* the panes that may have been saved with a command: a set of sets

\* Typing's tasks are create's commands, and a window that was not made is no
\* pane.
ASSUME RestoreAssumption == Tasks = Commands /\ Nobody = None /\ Saves \subseteq SUBSET Commands

Saved == UNION Saves

typing == <<pane, pc, attempt, shell, keys, line, ran>>

RInit == Init /\ TInit

\* finish, once every pane is made or known not to be; create's state is of
\* no more use.
TypeMade ==
    /\ phase = "done" /\ Len(lines) = N
    /\ \E s \in Saves : TypeAll([i \in Commands |-> IF i \in s THEN lines[i] ELSE None])
    /\ at' = N + 1 /\ lines' = <<>> /\ made' = [i \in Commands |-> 0]
    /\ left' = <<1, 0>> /\ refused' = {} /\ calls' = "lost"
    /\ UNCHANGED <<phase, out>>

RNext ==
    \/ Next /\ UNCHANGED typing
    \/ TypeMade
    \/ TNext /\ UNCHANGED vars

RSpec == RInit /\ [][RNext]_<<vars, typing>>

\* Each task goes on until it is answered, by its own timeouts at the latest,
\* and a shell that starts comes to read its keys.
RFairness ==
    /\ WF_<<vars, typing>>(TypeMade)
    /\ \A i \in Saved : WF_<<vars, typing>>(TypeInto(i) /\ UNCHANGED vars)
    /\ \A p \in Saved : WF_<<vars, typing>>(Shell(p) /\ UNCHANGED vars)
-----------------------------------------------------------------------------
\* "It returns how many were typed, and the labels of those that were not":
\* every command handed to typeAll is run by its shell in the end, or told as
\* not typed, or its pane is closed.  A text that only seemed to show is left out.
CommandsRunOrTold ==
    \A i \in Saved \ Misread :
        pc[i] = "queued" ~>
            (pc[i] \in Answers \ {"typed"} \/ ran[i] # <<>> \/ shell[i] = "closed")
=============================================================================
