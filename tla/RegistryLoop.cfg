SPECIFICATION LoopSpec
CONSTANTS
    Handles = {1, 2}
    BadNames = {3}
    Spks = {s1, s2}
    NoSpk = NoSpk
    Loop = loop
    s1 = s1
    s2 = s2
    Users = {ui}
    Budgets <- MCBudgets
    RootSize = 30
    CertSize = 50
    RelayMax = 100
    BudgetPercent = 85
    AssumedBatch = 3
    BatchCeiling = 2
INVARIANTS LoopTypeOK   MarkedWasSent
PROPERTIES Settles  ImplementsRequests Answered
