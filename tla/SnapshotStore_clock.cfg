\* The clock steps back.
SPECIFICATION HSpec
CONSTANTS
    Panes = {x1, x2}
    Keep = 2
    MaxTime = 3
    StepsBack = TRUE
SYMMETRY Symmetry
CHECK_DEADLOCK FALSE
PROPERTIES
    WrittenStays
