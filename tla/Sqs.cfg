SPECIFICATION Spec
CONSTANTS
    QueueNames = {q1}
    FifoNames = {q1}
    DedupIds = {d1}
    Delays = {}
    Timeouts = {0, 2}
    AttributeSets <- QueueAttributes
    Transports = {"xml", "json"}
    None = None
    MaxBatch = 2
    MaxTime = 3
    MaxId = 7
INVARIANTS
    NothingVanishes
    SettledStaysGone
    HandlesIdentify
    FifoDeduplicates
    FirstDeliveryInOrder
PROPERTIES
    LeaseRespected
    RedriveBoundsReceives
