\* Every terminal gets through, also when others are killed; one session that
\* a terminal does not land on.
SPECIFICATION FairSpec
CONSTANTS
    Procs = {p1, p2}
    Work = {w, hidden}
    Main = main
    Skipped = {hidden}
    Nobody = nobody
    Modes <- OnlyKilled
CHECK_DEADLOCK FALSE
PROPERTIES
    Opens
