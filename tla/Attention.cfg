\* One command at a time, with and without panes that close and move; two.
SPECIFICATION Spec
CONSTANTS
    p1 = p1
    p2 = p2
    w1 = w1
    w2 = w2
    r1 = r1
    r2 = r2
    Panes = {p1, p2}
    Windows = {w1, w2}
    Programs = {claude}
    Shell = shell
    Nobody = nobody
    Modes <- Everything
CHECK_DEADLOCK FALSE
INVARIANTS
    TypeOK
    CountsRight
    StillWindowsRight
    SweptBeforeCounted
