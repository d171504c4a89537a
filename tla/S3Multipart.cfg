SPECIFICATION MSpec
CONSTANTS
    Null = Null
    None = None
    Threshold = 1
    Buckets = {b1}
    Keys = {k1}
    BodyKinds = {"inline", "large"}
    Versionings = {}
    CopySources = {}
    PartNumbers = {1, 2}
    MaxBatch = 0
    MaxConcurrent = 2
    MaxOps = 4
CHECK_DEADLOCK FALSE
INVARIANTS
    QuietKeysAgree
    CompletedOnce
    UploadsStayCompletable
