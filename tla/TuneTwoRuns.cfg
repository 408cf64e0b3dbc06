\* Two runs race for two tables, one option each; the server need not answer, and the runs may deadlock.
SPECIFICATION FairSpec
CONSTANTS
    Keep = Keep
    Free = Free
    Other = Other
    NoTable = NoTable
    Unstaged = Unstaged
    CostLimit = cost_limit
    Procs = {p1, p2}
    Tables = {t1, t2}
    Options = {cost_limit}
    Levels = {0, 1}
    OtherTables = {}
INVARIANTS
    TypeOK
    ToldTheTruth
    LandedWhole
PROPERTIES
    Implements
    FirstCommitRaises
    Terminates
    LocksReleased
