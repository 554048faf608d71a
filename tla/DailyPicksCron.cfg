SPECIFICATION Spec
CONSTANTS
    Brands = {b1, b2}
    MaxDay = 2
    Lookback = 0
    KeyedBySymbol = FALSE
    Creators = {c1}
    Evaluators = {e1}
    ForceFlags <- NoForce
    WarmUp = 1
    TopN = 2
    Horizons = {1}
    LastHorizon = 1
    Deadline = 2
    SearchDays = 4
    ZeroBars <- NoZero
    Moves <- OneMove
    DailyCron = FALSE
    Relists = FALSE
    MaxActions = 0
    MaxFaults = 1
SYMMETRY BrandSymmetry
INVARIANTS BaseIsPickDate NoResendOnceMarked
PROPERTIES PublishedListIsStable ShownDaysAreFinal
CHECK_DEADLOCK FALSE
