SPECIFICATION ProvingSpec
CONSTANTS
    Jobs = {j1}
    NoJob = NoJob
    Loop = loop
    Pollers = {loop, ui}
    QueueCap = 1
    MaxPanics = 0
    MaxRestarts = 0
    MaxId = 4
    MaxLosses = 0
CHECK_DEADLOCK FALSE
INVARIANTS RootCertFits
