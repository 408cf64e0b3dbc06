\* Two tables, two long transactions at most; the defaults of config.Defaults, but for a max_score that the penalties exceed.
SPECIFICATION Spec
CONSTANTS
    HighDeadPct = 20
    CriticalDeadPct = 40
    HighHours = 8
    WraparoundWarningPct = 80
    WraparoundCriticalPct = 95
    MinTriggerForScaleWarning = 10000
    CapacityScale = 5
    ScaleUnit = 10000
    MaxHoursBetweenVacuum = 4
    MinScaleFactor = 10
    MaxScaleFactor = 2000
    ScaleGrain = 10
    MinThreshold = 100
    MaxThreshold = 1000
    CostLimitBump = 1800
    MinCostLimit = 200
    MaxCostLimit = 5000
    HeadroomPct = 125
    Tables = {t1, t2}
    Snapshots <- MCSnapshots
    MaxXacts = 2
    MinScore = 0
    MaxScore = 60
    CriticalPenalty = 15
    HighPenalty = 8
    WarningPenalty = 3
    LongXactPenalty = 5
    WraparoundPenalty = 20
INVARIANTS
    TypeOK
    FullScoreMeansClean
    WraparoundOutranks
    TuneIsAdvised
PROPERTY WorseNeverScoresBetter
