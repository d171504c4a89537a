SPECIFICATION Spec
CONSTANTS
    t1 = t1
    q1 = q1
    q2 = q2
    q3 = q3
    f1 = f1
    Topics = {t1}
    Protocols = {"sqs"}
    Endpoints = {q2}
    Filters <- MCFilters
    NoFilter = NoFilter
    Buses = {"b1"}
    RuleNames = {"r1"}
    Patterns <- MCPatterns
    TargetIds = {"x", "y"}
    Targets = {q3, f1}
    NoRule = NoRule
    NoPattern = NoPattern
    Queues = {q1, q2}
    MissingQueues = {q3}
    Attributes <- MCAttributes
    Events <- MCEvents
    ObjectEvents <- MCObjectEvents
    InitSubs <- MCInitSubs
    InitRules <- MCInitRules
    InitConfigs <- MCInitConfigs
    Configs <- MCConfigs
    Workers = 2
    MaxRequests = 2
    MaxChanges = 1
INVARIANTS
    DeliveredOnce
    PublishesAreSerial
PROPERTY DeliveriesEnd
CHECK_DEADLOCK FALSE
