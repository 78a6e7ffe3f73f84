\* Two processes and one pane, with a program that is looked up late.
SPECIFICATION HFairSpec
CONSTANTS
    Procs = {p1, p2}
    Idlers = {}
    Panes = {x1}
    Commands = {}
    Programs = {prog}
    Nobody = nobody
PROPERTIES
    NeverGoesBack
    CatchesUp
