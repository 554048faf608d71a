SPECIFICATION FairSpec
CONSTANTS
    Brands = {b1}
    MaxDay = 2
    Lookback = 0
    KeyedBySymbol = TRUE
    Creators = {c1}
    Evaluators = {e1}
    ForceFlags <- NoForce
    WarmUp = 1
    TopN = 1
    Horizons = {1, 2}
    LastHorizon = 2
    Deadline = 1
    SearchDays = 2
    ZeroBars <- ZeroOnDayOne
    Moves <- OneMove
    DailyCron = TRUE
    Relists = TRUE
    MaxActions = 1
    MaxFaults = 1
PROPERTIES PicksAreSettled LatestIsNotified
CHECK_DEADLOCK FALSE
