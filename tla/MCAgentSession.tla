----------------------------- MODULE MCAgentSession -----------------------------
(* AgentSession and AgentTitles for TLC: two models that share nothing, each a  *)
(* part of its own of one run.  Runs, tools and sessions are interchangeable,   *)
(* and in the other part panes, windows and sessions, for which the same model  *)
(* values stand.  A mode or a shape with some of the sessions or windows     *)
(* stands for those with as many others, which the next-state relations and     *)
(* the properties do not tell apart.                                            *)
EXTENDS AgentSession, AgentTitles, TLC

CONSTANTS r1, r2, s1, s2, t1, t2

VARIABLE part

Symmetry == Permutations(Runs) \cup Permutations(Tools) \cup Permutations(Sessions)

Bare == [ways |-> {"bare"}, sessions |-> {s1, s2}, tools |-> {}]
Asking == [ways |-> {"bare"}, sessions |-> {s1}, tools |-> {t1, t2}]
With(way) == [ways |-> {way}, sessions |-> {s1}, tools |-> {}]
Everything == {Bare, Asking, With("lost"), With("busy"), With("late"), With("jobs"), With("slow")}

OneWindow == [places |-> {t1}, sessions |-> {s1, s2}]
OneSession == [places |-> {t1, t2}, sessions |-> {s1}]
AllOfThem == [places |-> {t1, t2}, sessions |-> {s1, s2}]
Each == {OneWindow, OneSession, AllOfThem}

\* The part that is not the run's stays in one first state.
MInit ==
    /\ part \in {"session", "titles"}
    /\ Init /\ (part = "titles" => mode = Bare)
    /\ TitlesInit /\ (part = "session" <=> shape = AllOfThem)

MNext ==
    /\ UNCHANGED part
    /\ \/ part = "session" /\ Next /\ UNCHANGED tvars
       \/ part = "titles" /\ TitlesNext /\ UNCHANGED vars

MSpec == MInit /\ [][MNext]_<<part, vars, tvars>>

TypesOK == TypeOK /\ TitlesTypeOK
=============================================================================
