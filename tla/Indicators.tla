----------------------------- MODULE Indicators -----------------------------
(***************************************************************************)
(* The technical indicators: pure functions from a series of daily bars to *)
(* series of the same length.  Zero stands for "not yet known", as in the  *)
(* code; an empty series for nil.  Indices are from 1, one more than in    *)
(* the code.                                                               *)
(***************************************************************************)
EXTENDS Decimals, Sequences, FiniteSets, SequencesExt

CONSTANTS
    EmaShort, EmaLong, EmaSignal,           \* 12, 26, 9
    RsiPeriod,                              \* 14
    BandPeriod, BandFactor,                 \* 20, 2
    AtrPeriod,                              \* 14
    StochK, StochD,                         \* 14, 3
    AdxPeriod,                              \* 14
    Conversion, Base, SpanB, Displacement,  \* 9, 26, 52, 26
    Swing, Tolerance,                       \* 3, 0.015 in 1/Unit
    VwapPeriod,                             \* 14
    MinTechnicalDays,                       \* 30: fewer bars show nothing
    ChartLengths,                           \* {5, 25, 75}: of the chart's averages
    ChartWarmup                             \* the trading days of five months

Closes(bars) == [i \in DOMAIN bars |-> bars[i].close]

-----------------------------------------------------------------------------
(* Averages.                                                               *)

EMA(p, n) ==
    IF Len(p) < n THEN <<>> ELSE
    LET k == FDiv(2, n + 1)
        e[i \in 1 .. Len(p)] ==
            IF i < n THEN 0
            ELSE IF i = n THEN RoundDiv(SumOver(p, 1, n), n)
            ELSE LET prev == e[i - 1] IN FMul(p[i] - prev, k) + prev
    IN  [i \in 1 .. Len(p) |-> e[i]]

\* Mutant of SMA: the window ends with the next day.
SMANextDay(p, n) ==
    [i \in DOMAIN p |-> IF i < n THEN 0
        ELSE RoundDiv(SumOver(p, i - n + 2, Min({i + 1, Len(p)})), n)]

\* smaSeries (strategy_signals.go)
SMA(p, n) ==
    [i \in DOMAIN p |-> IF i < n THEN 0 ELSE RoundDiv(SumOver(p, i - n + 1, i), n)]

NoMACD == [macd |-> 0, signal |-> 0, histogram |-> 0]

MACD(p) ==
    IF Len(p) < EmaLong + EmaSignal THEN <<>> ELSE
    LET short == EMA(p, EmaShort)
        long == EMA(p, EmaLong)
        line == [i \in EmaLong .. Len(p) |-> short[i] - long[i]]
        signal == EMA([j \in 1 .. Len(p) - EmaLong + 1 |-> line[EmaLong + j - 1]],
                      EmaSignal)
    IN  [i \in DOMAIN p |->
            LET j == i - EmaLong + 1 IN
            IF j < EmaSignal THEN NoMACD
            ELSE [macd |-> line[i], signal |-> signal[j],
                  histogram |-> line[i] - signal[j]]]

-----------------------------------------------------------------------------
(* Oscillators.                                                            *)

Gain(p, i) == IF p[i] > p[i - 1] THEN p[i] - p[i - 1] ELSE 0
Loss(p, i) == IF p[i] > p[i - 1] THEN 0 ELSE p[i - 1] - p[i]

\* Wilder's smoothing, shared by the RSI, the ATR and the ADX.
Wilder(prev, x, n) == RoundDiv(prev * (n - 1) + x, n)

Smoothed(first, at, x(_), n, len) ==
    LET w[i \in at .. len] == IF i = at THEN first ELSE Wilder(w[i - 1], x(i), n)
    IN  [i \in at .. len |-> w[i]]

\* RSI from the average gain and loss: 100 when nothing was lost.
Strength(g, l) == IF l = 0 THEN Hundred ELSE Hundred - FDiv(Hundred, Unit + FDiv(g, l))

RSI(p) ==
    LET n == RsiPeriod IN
    IF Len(p) <= n THEN <<>> ELSE
    LET Avg(f(_)) == Smoothed(RoundDiv(MapThenSumSet(f, 2 .. n + 1), n), n + 1, f, n, Len(p))
        g == Avg(LAMBDA i : Gain(p, i))
        l == Avg(LAMBDA i : Loss(p, i))
    IN  [i \in DOMAIN p |-> IF i <= n THEN 0 ELSE Strength(g[i], l[i])]

NoBand == [upper |-> 0, middle |-> 0, lower |-> 0, width |-> 0]

BollingerBands(p) ==
    LET n == BandPeriod IN
    IF Len(p) < n THEN <<>> ELSE
    [i \in DOMAIN p |->
        IF i < n THEN NoBand ELSE
        LET sma == RoundDiv(SumOver(p, i - n + 1, i), n)
            sq == MapThenSumSet(LAMBDA j : FMul(p[j] - sma, p[j] - sma), i - n + 1 .. i)
            dev == BandFactor * Root(RoundDiv(sq, n))
        IN  [upper |-> sma + dev, middle |-> sma, lower |-> sma - dev,
             width |-> IF sma = 0 THEN 0 ELSE FDiv(2 * dev, sma)]]

TrueRange(bars, i) ==
    LET c == bars[i - 1].close
    IN  Max({bars[i].high - bars[i].low, Abs(bars[i].high - c), Abs(bars[i].low - c)})

ATR(bars) ==
    LET n == AtrPeriod
        Tr(i) == TrueRange(bars, i)
    IN  IF Len(bars) <= n THEN <<>> ELSE
        LET w == Smoothed(RoundDiv(MapThenSumSet(Tr, 2 .. n + 1), n), n + 1, Tr, n, Len(bars))
        IN  [i \in DOMAIN bars |-> IF i <= n THEN 0 ELSE w[i]]

Highest(bars, from, to) == Max({bars[j].high : j \in from .. to})
Lowest(bars, from, to) == Min({bars[j].low : j \in from .. to})

\* %K is 0 when the range of the period is.
Stochastics(bars) ==
    LET n == Len(bars) IN
    IF n < StochK + StochD - 1 THEN <<>> ELSE
    LET k == [i \in 1 .. n |->
                IF i < StochK THEN 0 ELSE
                LET low == Lowest(bars, i - StochK + 1, i)
                    range == Highest(bars, i - StochK + 1, i) - low
                IN  IF range = 0 THEN 0
                    ELSE FMul(FDiv(bars[i].close - low, range), Hundred)]
    IN  [i \in 1 .. n |->
            [k |-> k[i],
             d |-> IF i < StochK + StochD - 1 THEN 0
                   ELSE RoundDiv(SumOver(k, i - StochD + 1, i), StochD)]]

-----------------------------------------------------------------------------
(* Trend.                                                                  *)

\* calcDMTR: only the larger of the two moves counts.
DirectionalMove(bars, i) ==
    LET up == bars[i].high - bars[i - 1].high
        down == bars[i - 1].low - bars[i].low
    IN  [plus |-> IF up > down /\ up > 0 THEN up ELSE 0,
         minus |-> IF down > up /\ down > 0 THEN down ELSE 0]

\* The running sums of the ADX: one part in n is let go for each new value.
Running(x(_), n, len) ==
    LET s[i \in n + 1 .. len] ==
            IF i = n + 1 THEN MapThenSumSet(x, 2 .. n + 1)
            ELSE LET prev == s[i - 1] IN prev - RoundDiv(prev, n) + x(i)
    IN  [i \in n + 1 .. len |-> s[i]]

ADX(bars) ==
    LET n == AdxPeriod
        len == Len(bars)
    IN  IF len < 2 * n THEN <<>> ELSE
    LET plus == Running(LAMBDA i : DirectionalMove(bars, i).plus, n, len)
        minus == Running(LAMBDA i : DirectionalMove(bars, i).minus, n, len)
        tr == Running(LAMBDA i : TrueRange(bars, i), n, len)
        Di(s, i) == IF i <= n \/ tr[i] = 0 THEN 0 ELSE FMul(FDiv(s[i], tr[i]), Hundred)
        di == SubSeq([i \in 1 .. len |-> [plus |-> Di(plus, i), minus |-> Di(minus, i)]], 1, len)
        Dx(i) == LET sum == di[i].plus + di[i].minus
                 IN  IF sum = 0 THEN 0
                     ELSE FMul(FDiv(Abs(di[i].plus - di[i].minus), sum), Hundred)
        adx == Smoothed(RoundDiv(MapThenSumSet(Dx, n + 1 .. 2 * n), n), 2 * n, Dx, n, len)
    IN  [i \in 1 .. len |->
            [plus |-> di[i].plus, minus |-> di[i].minus,
             adx |-> IF i < 2 * n THEN 0 ELSE adx[i]]]

\* On balance volume: the sign of the close's move times the volume.
OBV(bars) ==
    LET o[i \in DOMAIN bars] ==
            IF i = 1 THEN 0
            ELSE IF bars[i].close > bars[i - 1].close THEN o[i - 1] + bars[i].volume
            ELSE IF bars[i].close < bars[i - 1].close THEN o[i - 1] - bars[i].volume
            ELSE o[i - 1]
    IN  [i \in DOMAIN bars |-> o[i]]

\* highLowMid
Mid(bars, end, n) ==
    IF end < n THEN 0
    ELSE RoundDiv(Highest(bars, end - n + 1, end) + Lowest(bars, end - n + 1, end), 2)

Ichimoku(bars) ==
    IF Len(bars) < SpanB THEN <<>> ELSE
    [i \in DOMAIN bars |->
        LET t == Mid(bars, i, Conversion)  k == Mid(bars, i, Base)
        IN  [tenkan |-> t, kijun |-> k, spanB |-> Mid(bars, i, SpanB),
             spanA |-> IF i >= Base /\ i >= Conversion THEN RoundDiv(t + k, 2) ELSE 0]]

\* Zero when nothing was traded in the period.
VWAP(bars) ==
    IF Len(bars) < VwapPeriod THEN <<>> ELSE
    [i \in DOMAIN bars |->
        IF i < VwapPeriod THEN 0 ELSE
        LET window == i - VwapPeriod + 1 .. i
            volume == MapThenSumSet(LAMBDA j : bars[j].volume, window)
            Worth(j) == RoundDiv(bars[j].high + bars[j].low + bars[j].close, 3)
                            * bars[j].volume
        IN  IF volume = 0 THEN 0 ELSE RoundDiv(MapThenSumSet(Worth, window), volume)]

-----------------------------------------------------------------------------
(* Support and resistance.                                                 *)

\* detectSwingPoints: a high above, or a low below, all those around it.  The
\* insertion sort keeps equal prices in order of detection.
SwingPoints(bars) ==
    LET inner == Swing + 1 .. Len(bars) - Swing
        Around(i) == (i - Swing .. i + Swing) \ {i}
        highs == {[price |-> bars[i].high, at |-> i, low |-> 0] : i \in
                    {x \in inner : \A j \in Around(x) : bars[j].high < bars[x].high}}
        lows == {[price |-> bars[i].low, at |-> i, low |-> 1] : i \in
                    {x \in inner : \A j \in Around(x) : bars[j].low > bars[x].low}}
    IN  SetToSortSeq(highs \cup lows,
            LAMBDA a, b : \/ a.price < b.price
                          \/ a.price = b.price /\ a.at < b.at
                          \/ a.price = b.price /\ a.at = b.at /\ a.low < b.low)

Near(p, ref) == ref # 0 /\ FDiv(Abs(p - ref), ref) <= Tolerance

\* clusterSwingPoints: a point joins the cluster whose first point it is near.
Cluster(levels, pt) ==
    IF levels # <<>> /\ Near(pt.price, Last(levels).ref)
    THEN Append(Front(levels),
                [Last(levels) EXCEPT !.sum = @ + pt.price, !.touches = @ + 1,
                                     !.at = Max({@, pt.at})])
    ELSE Append(levels, [ref |-> pt.price, sum |-> pt.price, touches |-> 1, at |-> pt.at])

SupportResistance(bars) ==
    IF Len(bars) < 2 * Swing + 1 THEN <<>>
    ELSE LET clusters == FoldLeft(Cluster, <<>>, SwingPoints(bars))
         IN  [i \in DOMAIN clusters |->
                [price |-> RoundDiv(clusters[i].sum, clusters[i].touches),
                 touches |-> clusters[i].touches, at |-> clusters[i].at,
                 support |-> RoundDiv(clusters[i].sum, clusters[i].touches)
                                <= Last(bars).close]]

-----------------------------------------------------------------------------
(* What the API shows of a day (technical_indicators_interactor.go).       *)

Spans(x) == [spanA |-> x.spanA, spanB |-> x.spanB]
NoSpan == [spanA |-> 0, spanB |-> 0]

\* applyIchimokuShift: a day shows the spans of Displacement days before.
ShiftedSpan(cloud, i) ==
    IF i > Displacement /\ cloud # <<>> THEN Spans(cloud[i - Displacement]) ELSE NoSpan

\* buildFuturePoints: the spans still to come, one per future business day.
FutureSpan(cloud, j) ==
    LET src == Len(cloud) - Displacement + j
    IN  IF src \in DOMAIN cloud THEN Spans(cloud[src]) ELSE NoSpan

\* buildTechnicalIndicatorPoints.  A zero is not shown, and hides its company:
\* %D goes with a %K of zero, -DI with a +DI of zero.  The close of a day is
\* also drawn Displacement days before it.
Points(bars) ==
    IF Len(bars) < MinTechnicalDays THEN <<>> ELSE
    LET atr == ATR(bars)  st == Stochastics(bars)  adx == ADX(bars)
        vwap == VWAP(bars)  cloud == Ichimoku(bars)
        At(s, i, none) == IF s = <<>> THEN none ELSE s[i]
        K(i) == At(st, i, [k |-> 0, d |-> 0])
        A(i) == At(adx, i, [plus |-> 0, minus |-> 0, adx |-> 0])
        C(i) == At(cloud, i, [tenkan |-> 0, kijun |-> 0])
    IN  [i \in DOMAIN bars |->
            [close |-> bars[i].close, atr |-> At(atr, i, 0), vwap |-> At(vwap, i, 0),
             obv |-> OBV(bars)[i], k |-> K(i).k, d |-> IF K(i).k = 0 THEN 0 ELSE K(i).d,
             plus |-> A(i).plus, minus |-> IF A(i).plus = 0 THEN 0 ELSE A(i).minus,
             adx |-> A(i).adx, tenkan |-> C(i).tenkan, kijun |-> C(i).kijun,
             spanA |-> ShiftedSpan(cloud, i).spanA, spanB |-> ShiftedSpan(cloud, i).spanB,
             chikou |-> IF cloud # <<>> /\ i + Displacement <= Len(bars)
                        THEN bars[i + Displacement].close ELSE 0]]

\* Mutant of ChartStart: only the visible days are read.
ChartStartAtVisible(visible) == visible

\* GetDailyStockPriceChart reads five months more than it shows.
ChartStart(visible) == Max({1, visible - ChartWarmup})

\* BuildDailyChartSeries: the averages are taken over all the bars read, the
\* chart shows the days from visible on, an average only once it is known.
ChartLine(bars, visible, n) ==
    LET start == ChartStart(visible)
        ma == SMA(Closes(SubSeq(bars, start, Len(bars))), n)
        Value(i) == ma[i - start + 1]
    IN  {<<i, Value(i)>> : i \in {j \in visible .. Len(bars) : Value(j) # 0}}

ChartSeries(bars, visible) ==
    [candles |-> SubSeq(bars, visible, Len(bars)),
     lines |-> [n \in ChartLengths |-> ChartLine(bars, visible, n)]]
=============================================================================
