SPECIFICATION Spec
CONSTANTS
    Invocations = {i1, i2, i3}
    Nil = Nil
    Keepalive = TRUE
    MaxCode = 2
    MaxContainers = 2
INVARIANTS
    AnswersAreTheirOwn
    WaitersAreServed
PROPERTY InvocationsEnd
CHECK_DEADLOCK FALSE
