\* Five panes, of which two get a command, and one shell loses what comes early;
\* or one gets a command that holds a newline.  Two stops.  Two keys for up to five
\* labels.
SPECIFICATION MSpec
CONSTANTS
    N = 5
    Saves = {{2, 4}, {1}}
    Tasks <- Commands
    Nobody <- None
    Attempts = 2
    Parallel = 1
    Control = {1}
    Drops = {4}
    Apparent = {2}
    MaxStops = 2
    MaxSignals = 1
    LabelKeys <- LabelPair
    MaxMatches = 5
    NoKey = nokey
CHECK_DEADLOCK FALSE
INVARIANTS
    TypesOK
    MadeOnce
    LinesMatch
    RefusedCostsItself
    OnlyWholeCommands
    FgSticks
    HangupIsKill
    LabelsLead
PROPERTIES
    CommandsRunOrTold
    StopTogether
