SPECIFICATION Spec
CONSTANTS
    Handles = {h1, h2}
    Spks = {s1, s2}
    NoSpk = NoSpk
    NoRoot = NoRoot
    Operators = {o1}
    Parkers = {o1}
    Stagers = {}
    BootLoadsAll = FALSE
    MaxId = 3
    MaxCrashes = 2
    MaxAborts = 0
SYMMETRY Sym
CHECK_DEADLOCK FALSE
INVARIANTS TreeIsLastRoot BroadcastIsServed PrevRootChain
PROPERTIES ImplementsLedger
