\* Two runs and one table with three levels of cost_limit.
SPECIFICATION Spec
CONSTANTS
    Keep = Keep
    Free = Free
    Other = Other
    NoTable = NoTable
    Unstaged = Unstaged
    CostLimit = cost_limit
    Procs = {p1, p2}
    Tables = {t1}
    Options = {cost_limit}
    Levels = {0, 1, 2}
    OtherTables = {}
PROPERTY CommitRaisesCostLimit
