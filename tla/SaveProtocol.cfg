\* Three processes, so that one writes, one waits and one comes; the third may
\* run WaitIdle too.  One pane, which takes every kind of value.
SPECIFICATION Spec
CONSTANTS
    Procs = {p1, p2, p3}
    Idlers = {p3}
    Panes = {x1}
    Commands = {cmd}
    Programs = {prog}
    Nobody = nobody
SYMMETRY Symmetry
INVARIANTS
    TypeOK
    LocksHeld
    NoLostChange
    ForgottenStaysOut
    ShutdownKeeps
