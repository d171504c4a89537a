SPECIFICATION Spec
CONSTANTS
    Null = Null
    None = None
    Threshold = 1
    Buckets = {b1}
    Keys = {k1}
    BodyKinds = {"large"}
    Versionings = {}
    CopySources = {}
    MaxBatch = 0
    MaxConcurrent = 2
    MaxOps = 2
CHECK_DEADLOCK FALSE
INVARIANTS ConcurrentPutsAgree
