SPECIFICATION Spec
CONSTANTS
    Null = Null
    None = None
    Threshold = 1
    Buckets = {b1}
    Keys = {k1, k2}
    BodyKinds = {"inline", "chunked", "large"}
    Versionings = {"Enabled", "Suspended"}
    CopySources = {k1}
    MaxBatch = 2
    MaxConcurrent = 2
    MaxOps = 3
CHECK_DEADLOCK FALSE
INVARIANTS
    QuietKeysAgree
    VersionsAreDurable
    ReadsAreWhole
    NoFileLeftBehind
