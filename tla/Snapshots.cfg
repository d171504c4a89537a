CONSTANTS
    Regions = {r1, r2}
    Keys = {k1}
    Bases = {x, y}
    Configs <- MCConfigs
    None = None
    MaxWrites = 2
    MaxInFlight = 2
    MaxStarts = 3
SPECIFICATION Spec
INVARIANTS AnswersSurvive TornIsNeverServed
PROPERTY ShutdownEnds
CHECK_DEADLOCK FALSE
