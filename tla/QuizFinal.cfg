SPECIFICATION FairSpec
CONSTANTS
    Brands = {b1}
    MaxDay = 2
    Lookback = 1
    KeyedBySymbol = TRUE
    Main = {b1}
    Makers = {m1}
    Graders = {g1}
    Predictions <- TwoPredictions
    Window = 1
    RangeTopN = 1
    Moves <- AllMoves
    ZeroBases <- NoZero
    Relists = TRUE
    MaxActions = 1
    MaxFaults = 1
INVARIANTS TypeOK GradesAreSound StatsExplainTheScore
PROPERTIES GradesAreFinal AnswersAreGraded
CHECK_DEADLOCK FALSE
