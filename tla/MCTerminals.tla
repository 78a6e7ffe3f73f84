----------------------------- MODULE MCTerminals -----------------------------
(* Three models that share nothing, each a part of its own of one run: a      *)
(* restore (RestorePanes), a launcher and its agent (LaunchJob), and tmux-warp *)
(* (Warp).  What the fairness of a part asks of the other parts holds, as they *)
(* stay in their first states.                                                *)
EXTENDS RestorePanes, LaunchJob, Warp

VARIABLE part

LabelPair == <<"j", "f">>

MInit == part \in {"restore", "launch", "warp"} /\ RInit /\ JInit /\ WInit

MNext ==
    /\ UNCHANGED part
    /\ \/ part = "restore" /\ RNext /\ UNCHANGED <<jvars, wvars>>
       \/ part = "launch" /\ JNext /\ UNCHANGED <<vars, typing, wvars>>
       \/ part = "warp" /\ WNext /\ UNCHANGED <<vars, typing, jvars>>

MSpec == MInit /\ [][MNext]_<<part, vars, typing, jvars, wvars>> /\ RFairness /\ JFairness

TypesOK == TypeOK /\ TTypeOK /\ JTypeOK /\ WTypeOK
=============================================================================
