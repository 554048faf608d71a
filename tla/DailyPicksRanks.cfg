SPECIFICATION Spec
CONSTANTS
    Brands = {b1, b2}
    MaxDay = 1
    Lookback = 0
    KeyedBySymbol = FALSE
    Creators = {c1}
    Evaluators = {e1}
    ForceFlags <- AnyForce
    WarmUp = 1
    TopN = 2
    Horizons = {1}
    LastHorizon = 1
    Deadline = 1
    SearchDays = 2
    ZeroBars <- NoZero
    Moves <- OneMove
    DailyCron = FALSE
    Relists = FALSE
    MaxActions = 0
    MaxFaults = 0
INVARIANT RanksAreOneToN
CHECK_DEADLOCK FALSE
