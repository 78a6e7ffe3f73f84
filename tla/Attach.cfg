\* Two terminals or restores and a session besides main.
SPECIFICATION Spec
CONSTANTS
    Procs = {p1, p2}
    Work = {w}
    Main = main
    Skipped = {}
    Nobody = nobody
    Modes <- Everything
SYMMETRY Symmetry
CHECK_DEADLOCK FALSE
INVARIANTS
    TypeOK
    RestoredOnce
    OwedStaysCalm
PROPERTIES
    LiveWorkAlone
    NoStrayMain
    GetsSession
