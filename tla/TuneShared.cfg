\* Two runs and a DBA write different options of one table.
SPECIFICATION ReadSpec
CONSTANTS
    Keep = Keep
    Free = Free
    Other = Other
    NoTable = NoTable
    Unstaged = Unstaged
    CostLimit = cost_limit
    Procs = {p1, p2}
    Tables = {t1}
    Options = {cost_limit, scale_factor}
    Levels = {0, 1}
    OtherTables = {t1}
SYMMETRY RunSymmetry
PROPERTIES
    NothingPutBack
    Implements
