SPECIFICATION Spec
CONSTANTS
    Requests = {r1, r2}
    EagerTasks = {e1}
    NoTask = NoTask
CHECK_DEADLOCK FALSE
INVARIANTS
    SingleInitializer
    StartBudget
PROPERTIES
    ImplementsLifecycle
    EveryTaskEnds
