\* A restore fails, and its server counts as restored.
SPECIFICATION Spec
CONSTANTS
    Procs = {p1, p2}
    Work = {w, hidden}
    Main = main
    Skipped = {hidden}
    Nobody = nobody
    Modes <- OnlyFailing
SYMMETRY Symmetry
CHECK_DEADLOCK FALSE
INVARIANTS
    OwedStays
