SPECIFICATION ProvingSpec
CONSTANTS
    Jobs = {j1, j2}
    NoJob = NoJob
    Loop = loop
    Pollers = {loop, ui}
    QueueCap = 1
    MaxPanics = 0
    MaxRestarts = 0
    MaxId = 3
    MaxLosses = 1
SYMMETRY JobSymmetry
CHECK_DEADLOCK FALSE
INVARIANTS ProvingTypeOK ReceiptsFit ProofsInOrder KeyNamesItsJob
PROPERTIES ImplementsChain
