SPECIFICATION Spec
CONSTANTS
    Brands = {b1, b2}
    MaxDay = 3
    Lookback = 0
    KeyedBySymbol = FALSE
    Main = {b1, b2}
    Makers = {m1}
    Graders = {g1}
    Predictions <- OnePrediction
    Window = 1
    RangeTopN = 1
    Moves <- OneMove
    ZeroBases <- ZeroOnFirstDay
    Relists = FALSE
    MaxActions = 0
    MaxFaults = 1
SYMMETRY BrandSymmetry
INVARIANTS OrdersAreOneToN GradedOnNextDay
PROPERTY UniverseIsFrozen
CHECK_DEADLOCK FALSE
