SPECIFICATION ComponentsSpec
CONSTANTS
    Unit = 100
    CloseValues = {90, 100, 115}
    MaxBacktestDays = 6
    TakeProfit = 10
    StopLoss = 8
    MaxHoldDays = 2
    Commission = 1
    Slippage = 1
    EmaShort = 1 EmaLong = 2 EmaSignal = 2 RsiPeriod = 3
    BandPeriod = 3 BandFactor = 1 AtrPeriod = 2 StochK = 2 StochD = 2 AdxPeriod = 2
    Conversion = 1 Base = 2 SpanB = 3 Displacement = 2 Swing = 1 Tolerance = 15
    VwapPeriod = 3 MinTechnicalDays = 2 ChartWarmup = 3 ChartLengths = {2, 3, 4}
    ShortMA = 2 MediumMA = 3 LongMA = 4 VolumeDays = 2 BandShort = 2 BandLong = 3
    Window = 5 ExtremaStrength = 1 MinExtremaPoints = 2 MinSlope = 0
    ContractionPct = 80 BreakLookback = 2 BreakVolumeDays = 2
    MaxBars = 6
    BarShapes <- ThreeBars
    Applicants <- SomeApplicants
    LiquidityStep = 100
    NoSector = ""
    PickTopN = 3
    MaxPerSector = 1
    TableRows <- SomeRows
    MaxTableRows = 4 PageLimit = 2 MaxTableChanges = 1 MaxPagesRead = 4
    Jobs <- SomeBrands WorkerCount = 2 Eligible = {1, 2, 4} MaxReadFaults = 1
    RankedStrategies <- TwoStrategies Outcome <- TwoOutcomes
    MaxRankingRuns = 2 MaxSetFaults = 1
    SignalShapes <- ThreeSignals SignalPrices = {0, 2, 3} SignalHorizons = {1, 2}
    LookAhead = 2 MaxSignalDays = 3 MaxSignals = 4
    MaxDay = 3 Lookback = 1 Keep = 3 Actions <- SplitAndConsolidation
    Adjusters = {"a1"} Overlap = FALSE Relists = TRUE MaxFaults = 1
    Quotes <- TwoCodes MaxPages = 2 IndexCloses = {0, 1, 2} LastTime = 1 MaxIndexMoves = 3
    Documents <- FourDocuments ValuationLimit = 1 MaxSweeps = 2 MaxTroubles = 1
    Announcers = {"a", "b"} MaxCalendarDay = 4 HoursSeen = {8, 9}
    Numbers = {0, 1, 20, 501, 10001} DayNumbers = {133, 134, 410, 500, 501}
    ReturnPrices = {1, 2, 4} BenchmarkPrices = {1, 2} MaxReturnDays = 4 MinReturnDays = 3 SectorDays = {1, 3}
    Subjects = {"feed", "indices", "statements", "calendar", "chart", "returns", "backtest", "signals", "scores", "ranking", "pages", "requests", "serial"}
INVARIANTS
    ExternalDataIsWhole ReturnsAreSound BacktestIsExact
    SignalFiguresAddUp PicksAreSound RankingIsSound PagesAreExact RequestsAreSound AdjustedBeyondLookback
PROPERTIES ChartsAreSound NoLookAhead ReturnsAreFinal
CHECK_DEADLOCK FALSE
