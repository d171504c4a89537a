CONSTANTS
    Users = {u1, u2}
    None = None
    MaxCommands = 3
    MaxServers = 2
SPECIFICATION Spec
INVARIANT ServerIsTracked
PROPERTY CommandsEnd
CHECK_DEADLOCK FALSE
