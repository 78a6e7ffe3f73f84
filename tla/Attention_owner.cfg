\* One command at a time; two programs in a pane.
SPECIFICATION Spec
CONSTANTS
    p1 = p1
    p2 = p2
    w1 = w1
    w2 = w2
    r1 = r1
    r2 = r2
    Panes = {p1, p2}
    Windows = {w1, w2}
    Programs = {claude, codex}
    Shell = shell
    Nobody = nobody
    Modes <- OnlyOwners
CHECK_DEADLOCK FALSE
INVARIANTS
    OwnerNamed
