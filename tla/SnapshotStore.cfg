\* Crashes between any two file operations, captures beside the saves.
SPECIFICATION HSpec
CONSTANTS
    Panes = {x1, x2}
    Keep = 2
    MaxTime = 4
    StepsBack = FALSE
SYMMETRY Symmetry
CHECK_DEADLOCK FALSE
INVARIANTS
    NewestIsLast
    DetailsPushNothingOut
PROPERTIES
    PruneKeepsNewest
    ScrollbackKept
