\* The bounds of the configuration in config_test.go: scale factors from 0.002 to 0.1 in steps of 0.01.
SPECIFICATION Spec
CONSTANTS
    HighDeadPct = 15
    CriticalDeadPct = 50
    HighHours = 6
    WraparoundWarningPct = 70
    WraparoundCriticalPct = 90
    MinTriggerForScaleWarning = 5000
    CapacityScale = 5
    ScaleUnit = 10000
    MaxHoursBetweenVacuum = 3
    MinScaleFactor = 20
    MaxScaleFactor = 1000
    ScaleGrain = 100
    MinThreshold = 50
    MaxThreshold = 500
    CostLimitBump = 500
    MinCostLimit = 200
    MaxCostLimit = 4000
    HeadroomPct = 125
    Sizes = {1000, 20000}
    Ages = {10, 85}
    Scales = {0, 125, 2000}
    Thresholds = {1, 5000}
    Limits = {200}
    Delays = {2}
    Rates = {0, 7, 300, 4000}
    Carried = {0}
    MaxWindow = 2
    MaxPileUp = 6
PROPERTY ScaleWithinBounds
