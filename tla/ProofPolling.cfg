SPECIFICATION ProvingSpec
CONSTANTS
    Jobs = {j1, j2}
    NoJob = NoJob
    Loop = loop
    Pollers = {loop, ui}
    QueueCap = 1
    MaxPanics = 1
    MaxRestarts = 1
    MaxId = 2
    MaxLosses = 1
CHECK_DEADLOCK FALSE
PROPERTIES PushedIsCollected
