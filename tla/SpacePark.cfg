SPECIFICATION Spec
CONSTANTS
    Handles = {h1, h2}
    Spks = {s1}
    NoSpk = NoSpk
    NoRoot = NoRoot
    Operators = {o1}
    Parkers = {o1}
    Stagers = {}
    BootLoadsAll = FALSE
    MaxId = 2
    MaxCrashes = 0
    MaxAborts = 0
SYMMETRY Sym
CHECK_DEADLOCK FALSE
PROPERTIES ParkNeverUnparks
