\* The default configuration in units of 100 tuples and of 1/10000 for scale factors, but for max_cost_limit and a capacity scaled down to the workloads.
SPECIFICATION Spec
CONSTANTS
    HighDeadPct = 20
    CriticalDeadPct = 40
    HighHours = 8
    WraparoundWarningPct = 80
    WraparoundCriticalPct = 95
    MinTriggerForScaleWarning = 10000
    CapacityScale = 5
    ScaleUnit = 10000
    MaxHoursBetweenVacuum = 4
    MinScaleFactor = 10
    MaxScaleFactor = 2000
    ScaleGrain = 10
    MinThreshold = 100
    MaxThreshold = 1000
    CostLimitBump = 1800
    MinCostLimit = 200
    MaxCostLimit = 5000
    HeadroomPct = 125
    Sizes = {1000, 20000}
    Ages = {10, 85}
    Scales = {0, 125, 2000}
    Thresholds = {1, 5000}
    Limits = {5000}
    Delays = {20}
    Rates = {0, 7, 300, 4000}
    Carried = {0, 8000}
    MaxWindow = 2
    MaxPileUp = 6
INVARIANT NoChangeMeansKeepingUp
