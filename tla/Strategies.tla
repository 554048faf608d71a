----------------------------- MODULE Strategies -----------------------------
(***************************************************************************)
(* The entry and exit signals of the five strategies, as the set of days   *)
(* of a series of bars on which each holds at the close.                   *)
(***************************************************************************)
EXTENDS Indicators

CONSTANTS
    ShortMA, MediumMA, LongMA,      \* 5, 25, 75
    VolumeDays,                     \* 5: the days a volume is compared with
    BandShort, BandLong,            \* 5, 20
    Window, ExtremaStrength, MinExtremaPoints, MinSlope, ContractionPct,
    BreakLookback, BreakVolumeDays  \* 60, 2, 3, 0.0005, 80, 20, 20

StrategyOrder == <<"macd_bullish", "bollinger_breakout", "triangle_formation",
                   "ma_cross", "multiple_signals">>
Overheated == 70 * Unit
SurgePct == 150

\* The condition holds on day i and did not on the day before.
Crosses(Holds(_), i) == Holds(i) /\ ~ Holds(i - 1)

-----------------------------------------------------------------------------
(* Helpers.                                                                *)

\* The days before day i, which is not among them.
AvgVolume(bars, i, days) ==
    LET before == Max({1, i - days}) .. i - 1
    IN  IF before = {} THEN 0
        ELSE FDiv(MapThenSumSet(LAMBDA j : bars[j].volume, before), Cardinality(before))

AvgBandWidth(bb, i, days) ==
    LET window == Max({1, i - days + 1}) .. i
    IN  RoundDiv(MapThenSumSet(LAMBDA j : bb[j].width, window), Cardinality(window))

\* localExtremaSlope: least squares over the strict extrema of a window.
ExtremaSlope(value, from, to) ==
    LET Around(j) == (j - ExtremaStrength .. j + ExtremaStrength) \ {j}
        pts == {j \in from + ExtremaStrength .. to - ExtremaStrength :
                    \A k \in Around(j) : value[k] < value[j]}
        X(j) == j - from
        n == Cardinality(pts)
        sx == MapThenSumSet(X, pts)
        sy == MapThenSumSet(LAMBDA j : value[j], pts)
        sxy == MapThenSumSet(LAMBDA j : X(j) * value[j], pts)
        denom == n * MapThenSumSet(LAMBDA j : X(j) * X(j), pts) - sx * sx
    IN  IF n < MinExtremaPoints \/ denom = 0 THEN [ok |-> FALSE, slope |-> 0]
        ELSE [ok |-> TRUE, slope |-> RoundDiv(n * sxy - sx * sy, denom)]

AvgPriceRange(bars, from, to) ==
    RoundDiv(MapThenSumSet(LAMBDA j : bars[j].high - bars[j].low, from .. to),
             to - from + 1)

MaxHighInLookback(bars, i) ==
    IF i <= 1 THEN 0 ELSE Highest(bars, Max({1, i - BreakLookback}), i - 1)

-----------------------------------------------------------------------------
(* Entries.                                                                *)

MACDBullishEntry(bars) ==
    LET p == Closes(bars)  macd == MACD(p)  rsi == RSI(p)
        Above(i) == macd[i].macd > macd[i].signal
    IN  IF macd = <<>> \/ rsi = <<>> THEN {} ELSE
        {i \in EmaLong + EmaSignal + 1 .. Len(p) :
            /\ Crosses(Above, i)
            /\ macd[i].signal >= 0
            /\ rsi[i] < Overheated
            /\ bars[i].volume * Unit > AvgVolume(bars, i, VolumeDays)}

BollingerBreakoutEntry(bars) ==
    LET p == Closes(bars)  bb == BollingerBands(p)  rsi == RSI(p)
        Above(i) == p[i] > bb[i].upper
    IN  IF bb = <<>> \/ rsi = <<>> THEN {} ELSE
        {i \in 2 * BandPeriod .. Len(p) :
            /\ Crosses(Above, i)
            /\ AvgBandWidth(bb, i, BandShort) < AvgBandWidth(bb, i, BandLong)
            /\ 100 * bars[i].volume * Unit > SurgePct * AvgVolume(bars, i, VolumeDays)
            /\ rsi[i] < Overheated}

\* The window of the contraction ends the day before the breakout.
Contracts(bars, i) ==
    LET from == i - Window  to == i - 1
        high == ExtremaSlope([j \in from .. to |-> bars[j].high], from, to)
        low == ExtremaSlope([j \in from .. to |-> -bars[j].low], from, to)
        third == Window \div 3
        first == AvgPriceRange(bars, from, from + third - 1)
        last == AvgPriceRange(bars, to - third + 1, to)
    IN  /\ high.ok /\ low.ok
        /\ FDiv(high.slope, bars[i].close) <= -MinSlope
        /\ FDiv(-low.slope, bars[i].close) >= MinSlope
        /\ first # 0
        /\ 100 * last <= ContractionPct * first

TriangleFormationEntry(bars) ==
    LET Broken(i) == bars[i].close > MaxHighInLookback(bars, i) IN
    {i \in Max({Window + 1, BreakLookback + 2}) .. Len(bars) :
        /\ bars[i].close # 0
        /\ Window \div 3 > 0
        /\ Contracts(bars, i)
        /\ Crosses(Broken, i)
        /\ 100 * bars[i].volume * Unit > SurgePct * AvgVolume(bars, i, BreakVolumeDays)}

MovingAverageCrossEntry(bars) ==
    LET p == Closes(bars)
        lines == {SMA(p, ShortMA), SMA(p, MediumMA), SMA(p, LongMA)}
        AboveAll(i) == \A ma \in lines : ma[i] # 0 /\ p[i] > ma[i]
    IN  {i \in LongMA + 1 .. Len(p) : Crosses(AboveAll, i)}

MultipleSignalsEntry(bars) ==
    LET found == <<MACDBullishEntry(bars), BollingerBreakoutEntry(bars),
                   TriangleFormationEntry(bars), MovingAverageCrossEntry(bars)>>
    IN  {i \in DOMAIN bars : Cardinality({s \in 1 .. 4 : i \in found[s]}) >= 2}

\* Any other name of a strategy has no signal.
EntrySignalsByStrategy(strategy, bars) ==
    CASE strategy = "macd_bullish" -> MACDBullishEntry(bars)
      [] strategy = "bollinger_breakout" -> BollingerBreakoutEntry(bars)
      [] strategy = "triangle_formation" -> TriangleFormationEntry(bars)
      [] strategy = "ma_cross" -> MovingAverageCrossEntry(bars)
      [] strategy = "multiple_signals" -> MultipleSignalsEntry(bars)
      [] OTHER -> {}

-----------------------------------------------------------------------------
(* Exits.                                                                  *)

MACDBullishExit(bars) ==
    LET macd == MACD(Closes(bars))
        Below(i) == macd[i].macd < macd[i].signal
    IN  IF macd = <<>> THEN {}
        ELSE {i \in EmaLong + EmaSignal + 1 .. Len(bars) : Crosses(Below, i)}

BollingerBreakoutExit(bars) ==
    LET p == Closes(bars)  bb == BollingerBands(p)
        Below(i) == p[i] < bb[i].middle
    IN  IF bb = <<>> THEN {}
        ELSE {i \in BandPeriod + 1 .. Len(bars) : Crosses(Below, i)}

MovingAverageCrossExit(bars) ==
    LET p == Closes(bars)  short == SMA(p, ShortMA)  medium == SMA(p, MediumMA)
        Below(i) == short[i] < medium[i]
        Known(i) == short[i] # 0 /\ medium[i] # 0
    IN  {i \in MediumMA + 1 .. Len(p) : Known(i) /\ Known(i - 1) /\ Crosses(Below, i)}

GenericTrendBreakExit(bars) ==
    LET p == Closes(bars)  medium == SMA(p, MediumMA)
        Below(i) == p[i] < medium[i]
    IN  {i \in MediumMA + 1 .. Len(p) :
            medium[i] # 0 /\ medium[i - 1] # 0 /\ Crosses(Below, i)}

ExitSignalsByStrategy(strategy, bars) ==
    CASE strategy = "macd_bullish" -> MACDBullishExit(bars)
      [] strategy = "bollinger_breakout" -> BollingerBreakoutExit(bars)
      [] strategy = "ma_cross" -> MovingAverageCrossExit(bars)
      [] strategy \in {"triangle_formation", "multiple_signals"} ->
            GenericTrendBreakExit(bars)
      [] OTHER -> {}
=============================================================================
