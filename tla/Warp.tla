--------------------------------- MODULE Warp ---------------------------------
(***************************************************************************)
(* tmux-warp: each match of a query gets a label, and the keys the user    *)
(* types at a prompt pick one.  A key comes through a tmux option, which   *)
(* also holds the key of a prompt an earlier run gave up.  One client; the *)
(* query's prompt takes the place of a prompt that is still open.          *)
(***************************************************************************)
EXTENDS Integers, Sequences, SequencesExt

CONSTANTS
    LabelKeys,     \* labelKeys, a sequence
    MaxMatches,
    NoKey          \* the option is not set

KeyCount == Len(LabelKeys)
Key == {LabelKeys[k] : k \in 1..KeyCount}

\* No key is there twice.
ASSUME WarpAssumption ==
    /\ MaxMatches \in Nat /\ NoKey \notin Key
    /\ LabelKeys \in Seq(Key) /\ KeyCount > 1
    /\ \A j, k \in 1..KeyCount : LabelKeys[j] = LabelKeys[k] => j = k

VARIABLES
    wpc,        \* "idle", "unset", "open" or "poll" (promptChar)
    matches,    \* how many matches, nearest first
    label,      \* what runOverlayLoop has collected
    option,     \* @warp_label
    prompt,     \* a prompt for one key is open
    jump,       \* the match jumped to, 0 for none
    end,        \* how the run ended: "none", "jumped", "noMatch", "gaveUp"
    want,       \* history: the match the user wants
    strayed     \* history: the user pressed another key than its label's next

wvars == <<wpc, matches, label, option, prompt, jump, end, want, strayed>>

\* generateLabels: the keys are labels; for as long as there are too few, every
\* label is followed by every key.
Single == [i \in 1..KeyCount |-> <<LabelKeys[i]>>]
Lengthen(s) ==
    [i \in 1..(Len(s) * KeyCount) |->
        Append(s[((i - 1) \div KeyCount) + 1], LabelKeys[((i - 1) % KeyCount) + 1])]

Labels[r \in Nat] == IF r = 0 THEN Single ELSE Lengthen(Labels[r - 1])

Rounds(n) ==
    CHOOSE r \in 0..n : Len(Labels[r]) >= n /\ \A q \in 0..(r - 1) : Len(Labels[q]) < n

\* Mutant of Label: labels are as short as each can be.
LabelShort(i, n) == Labels[IF i <= KeyCount THEN 0 ELSE Rounds(n)][i]

Label(i, n) == Labels[Rounds(n)][i]

\* findMatchByLabel, and the labels a label begins.
Found(l) == {i \in 1..matches : Label(i, matches) = l}
Begun(l) == {i \in 1..matches : IsStrictPrefix(l, Label(i, matches))}

WInit ==
    /\ wpc = "idle" /\ matches = 0 /\ label = <<>> /\ option = NoKey /\ prompt = FALSE
    /\ jump = 0 /\ end = "none" /\ want = 0 /\ strayed = FALSE
-----------------------------------------------------------------------------
\* A query: no match ends the run, the only one is jumped to, and several get
\* labels, of which the user wants one.
Query(n, i) ==
    /\ wpc = "idle" /\ ((n = 0 /\ i = 0) \/ i \in 1..n)
    /\ prompt' = FALSE
    /\ matches' = n /\ want' = i /\ label' = <<>> /\ strayed' = FALSE
    /\ jump' = IF n = 1 THEN 1 ELSE 0
    /\ end' = CASE n = 0 -> "noMatch" [] n = 1 -> "jumped" [] OTHER -> "none"
    /\ wpc' = IF n > 1 THEN "unset" ELSE "idle"
    /\ UNCHANGED option

\* Mutant of Unset: the option is not cleared.
UnsetNothing ==
    /\ wpc = "unset" /\ wpc' = "open"
    /\ UNCHANGED <<matches, label, option, prompt, jump, end, want, strayed>>

\* promptChar clears a stale value.
Unset ==
    /\ wpc = "unset" /\ wpc' = "open" /\ option' = NoKey
    /\ UNCHANGED <<matches, label, prompt, jump, end, want, strayed>>

OpenPrompt ==
    /\ wpc = "open" /\ wpc' = "poll" /\ prompt' = TRUE
    /\ UNCHANGED <<matches, label, option, jump, end, want, strayed>>

\* The user presses a key at an open prompt, be it one of a run that is over.
Press(k) ==
    /\ prompt /\ prompt' = FALSE /\ option' = k
    /\ strayed' = (strayed \/ (wpc # "idle" /\ ~IsPrefix(Append(label, k), Label(want, matches))))
    /\ UNCHANGED <<wpc, matches, label, jump, end, want>>

\* The user dismisses the prompt.
Dismiss ==
    /\ prompt /\ prompt' = FALSE
    /\ UNCHANGED <<wpc, matches, label, option, jump, end, want, strayed>>

\* readOptionValue.
ReadOption ==
    /\ wpc = "poll" /\ option # NoKey /\ label' = Append(label, option)
    /\ UNCHANGED <<matches, option, prompt, want, strayed>>

\* The label is complete.
Pick ==
    /\ ReadOption /\ Found(label') # {}
    /\ jump' = CHOOSE i \in Found(label') : \A j \in Found(label') : i <= j
    /\ end' = "jumped" /\ wpc' = "idle"

GoOn ==
    /\ ReadOption /\ Found(label') = {} /\ Begun(label') # {}
    /\ wpc' = "unset" /\ UNCHANGED <<jump, end>>

\* No label begins with it.
NoMatch ==
    /\ ReadOption /\ Found(label') = {} /\ Begun(label') = {}
    /\ end' = "noMatch" /\ wpc' = "idle" /\ UNCHANGED jump

\* inputTimeout, or tmux does not answer: the prompt stays open.
GiveUp ==
    /\ wpc # "idle" /\ wpc' = "idle" /\ end' = "gaveUp"
    /\ UNCHANGED <<matches, label, option, prompt, jump, want, strayed>>

WNext ==
    \/ \E n \in 0..MaxMatches : \E i \in 0..n : Query(n, i)
    \/ Unset \/ OpenPrompt \/ Pick \/ GoOn \/ NoMatch \/ GiveUp
    \/ \E k \in Key : Press(k)
    \/ Dismiss

WSpec == WInit /\ [][WNext]_wvars
-----------------------------------------------------------------------------
\* Every variable keeps its type.
WTypeOK ==
    /\ wpc \in {"idle", "unset", "open", "poll"}
    /\ matches \in 0..MaxMatches /\ jump \in 0..matches /\ want \in 0..matches
    /\ label \in Seq(Key) /\ Len(label) <= MaxMatches
    /\ option \in Key \cup {NoKey} /\ prompt \in BOOLEAN /\ strayed \in BOOLEAN
    /\ end \in {"none", "jumped", "noMatch", "gaveUp"}

\* "All labels must be the same length so a single keypress never matches
\* early", and "a late keypress harmlessly sets the option, which the next run
\* clears": a user who types the label of a match gets to that match.
LabelsLead == end \in {"jumped", "noMatch"} /\ ~strayed => jump = want
=============================================================================
