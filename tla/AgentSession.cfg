\* Two runs in turn, launched or not, heard in time or not.  Two panes in one or
\* two windows, and one step in the middle of a sweep.
SPECIFICATION MSpec
CONSTANTS
    r1 = r1
    r2 = r2
    s1 = s1
    s2 = s2
    t1 = t1
    t2 = t2
    Runs = {r1, r2}
    Sessions = {s1, s2}
    OneShots = {o1}
    Tools = {t1, t2}
    Nobody = nobody
    MaxAsks = 1
    Modes <- Everything
    Terms = {r1, r2}
    Places = {t1, t2}
    Titled = {s1, s2}
    Untitled = nobody
    User = user
    Automatic = automatic
    MaxMeanwhile = 1
    Shapes <- Each
SYMMETRY Symmetry
CHECK_DEADLOCK FALSE
INVARIANTS
    TypesOK
    ReviveNamesSession
    OneShotStays
    EndedLetGo
    PendingStays
    RecordAgrees
    NamesBelong
PROPERTIES
    ListedKept
