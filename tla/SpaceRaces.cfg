SPECIFICATION Spec
CONSTANTS
    Handles = {h1, h2}
    Spks = {s1}
    NoSpk = NoSpk
    NoRoot = NoRoot
    Operators = {o1, o2}
    Parkers = {}
    Stagers = {}
    BootLoadsAll = FALSE
    MaxId = 2
    MaxCrashes = 0
    MaxAborts = 0
SYMMETRY Sym
CHECK_DEADLOCK FALSE
INVARIANTS ExtendsPrev
PROPERTIES BroadcastKept ImplementsChain
