SPECIFICATION FairSpec
CONSTANTS
    Brands = {b1}
    MaxDay = 1
    Lookback = 0
    KeyedBySymbol = FALSE
    Creators = {c1}
    Evaluators = {e1}
    ForceFlags <- NoForce
    WarmUp = 1
    TopN = 1
    Horizons = {1}
    LastHorizon = 1
    Deadline = 2
    SearchDays = 4
    ZeroBars <- NoZero
    Moves <- OneMove
    DailyCron = FALSE
    Relists = FALSE
    MaxActions = 0
    MaxFaults = 1
PROPERTY UnnotifiedIsRetried
CHECK_DEADLOCK FALSE
