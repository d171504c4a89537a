CONSTANTS
    Tables = {1, 2}
    k1 = k1
    k2 = k2
    a = a
    b = b
    true = true
    Keys <- MCKeys
    IdxVals <- MCIdxVals
    BoolVals <- MCBoolVals
    Requests <- MCRequests
    Creations <- MCCreations
    Changes <- MCChanges
    Readers = {r1}
    None = None
    MaxRequests = 2
    MaxInFlight = 2
    MaxAdmin = 3
    MaxReads = 3
    MaxLog = 2
SPECIFICATION Spec
INVARIANTS IndexesAgree TransactionsAreIsolated StreamsReplicate
PROPERTY EveryRequestEnds
CHECK_DEADLOCK FALSE
