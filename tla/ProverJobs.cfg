SPECIFICATION ServerSpec
CONSTANTS
    Jobs = {j1, j2, j3, j4}
    NoJob = NoJob
    Pollers = {c1, c2}
    QueueCap = 2
    MaxPanics = 1
    MaxRestarts = 1
CHECK_DEADLOCK FALSE
INVARIANTS ServerTypeOK ReceiptWhenComplete DeliveredOnce CancelHolds NoneForgotten
PROPERTIES EndedStays JobsEnd
