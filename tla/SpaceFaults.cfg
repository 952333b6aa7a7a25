SPECIFICATION Spec
CONSTANTS
    Handles = {h1, h2, h3}
    Spks = {s1}
    NoSpk = NoSpk
    NoRoot = NoRoot
    Operators = {o1}
    Parkers = {o1}
    Stagers = {}
    BootLoadsAll = TRUE
    MaxId = 3
    MaxCrashes = 1
    MaxAborts = 1
SYMMETRY Sym
CHECK_DEADLOCK FALSE
INVARIANTS TypeOK CommittedRowsProvable TreeMatchesTable TxidWasSent PipelineAgrees
PROPERTIES ImplementsTable ImplementsChain
