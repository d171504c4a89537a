INIT Init
NEXT Next
CONSTANTS
    Nil = Nil
    Consumers = {c1}
    Listers = {l1, l2}
    Starters = {s1}
    Creators = {w1, w2}
    Names = {n1, n2}
    Aliases = {a1, a2}
    Machines = {m1}
    ExecNames = {e1}
    Groups = {lg1, lg2}
    LogStreams = {ls1}
    UserNames = {u1, u2}
    RoleNames = {r1}
    GroupNames = {g1}
    PolicyArns = {p1}
    StackNames = {st1, st2}
    Repositories = {rp1, rp2}
    StageNames = {sg1}
INVARIANTS
    ShardsAreReadInOrder
    SecretsAreCurrent
    CiphertextsOutliveAliases
    PutsReadBack
    ExecutionsRunTheirMachine
    ObservationsAddUp
    NamesShowTheirOwner
CHECK_DEADLOCK FALSE
