-------------------------------- MODULE Tape --------------------------------
(***************************************************************************)
(* One symbol's series of bars as the days pass, and what the indicators   *)
(* and strategies say of it each evening.                                  *)
(***************************************************************************)
EXTENDS Strategies

CONSTANTS
    BarShapes,      \* the bars a day may bring
    MaxBars         \* bound: length of the series

VARIABLE tape

TapeInit == tape = <<>>

\* A further day of the range the interactors read.
NewBar(b) == Len(tape) < MaxBars /\ tape' = Append(tape, b)

TapeNext == \E b \in BarShapes : NewBar(b)

TapeSpec == TapeInit /\ [][TapeNext]_tape

-----------------------------------------------------------------------------
Series(bars) ==
    LET p == Closes(bars) IN
    <<EMA(p, EmaShort), EMA(p, EmaLong), SMA(p, MediumMA), MACD(p), RSI(p),
      BollingerBands(p)>>

\* No value once shown is another afterwards.  A series not shown at all yet
\* (too few bars) may still appear, as may a value that was zero.  Support and
\* resistance are not meant: they are redrawn every day.
ValuesAreKept(was, is) ==
    LET old == Series(was)  new == Series(is)
        shown == Points(was)  then == Points(is)
    IN  /\ \A s \in DOMAIN old : old[s] # <<>> =>
               \A i \in DOMAIN was : new[s][i] = old[s][i]
        /\ \A i \in DOMAIN shown : \A f \in DOMAIN shown[i] :
               shown[i][f] # 0 => then[i][f] = shown[i][f]

\* Nor does a strategy enter or leave on a past day when a later one is known.
SignalsAreKept(was, is) ==
    \A k \in DOMAIN StrategyOrder : LET name == StrategyOrder[k] IN
        /\ EntrySignalsByStrategy(name, is) \cap DOMAIN was
               = EntrySignalsByStrategy(name, was)
        /\ ExitSignalsByStrategy(name, is) \cap DOMAIN was
               = ExitSignalsByStrategy(name, was)

\* The cloud drawn ahead of the last bar comes true: the next bar shows, for its
\* day and for those after it, the spans that were announced.
CloudComesTrue(was, is) ==
    LET cloud == Ichimoku(was)  next == Ichimoku(is)
    IN  Len(was) >= SpanB =>
            /\ ShiftedSpan(next, Len(is)) = FutureSpan(cloud, 1)
            /\ \A j \in 1 .. Displacement - 1 :
                   FutureSpan(next, j) = FutureSpan(cloud, j + 1)

\* What has been shown for a day is never revised when a later bar arrives: no
\* indicator and no signal looks ahead, so a backtest over the whole range
\* trades on what was known at each close (GetTechnicalIndicators, the entry
\* and exit signals by strategy).
NoLookAhead ==
    [][Len(tape') > Len(tape) =>
           /\ ValuesAreKept(tape, tape')
           /\ SignalsAreKept(tape, tape')
           /\ CloudComesTrue(tape, tape')]_tape

\* The four elementary strategies signal the moment of a change: never on two
\* days running.  The first two never signal an entry and an exit at the same
\* close (the others may: their exits look at other lines).
SignalsAreMoments(bars) ==
    /\ \A k \in 1 .. 4 :
        LET entries == EntrySignalsByStrategy(StrategyOrder[k], bars)
            exits == ExitSignalsByStrategy(StrategyOrder[k], bars)
        IN  /\ \A i \in entries : i - 1 \notin entries
            /\ \A i \in exits : i - 1 \notin exits
            /\ k <= 2 => entries \cap exits = {}

\* The oscillators stay in their scales: RSI, %K, %D, ADX within 0..100, and
\* the two directional indicators, of which each day feeds only one, together
\* at most 100 percent of the true range (one unit of rounding aside).
OscillatorsInScale(bars) ==
    LET rsi == RSI(Closes(bars))  st == Stochastics(bars)  adx == ADX(bars)
    IN  /\ \A i \in DOMAIN rsi : rsi[i] \in 0 .. Hundred
        /\ \A i \in DOMAIN st : st[i].k \in 0 .. Hundred /\ st[i].d \in 0 .. Hundred
        /\ \A i \in DOMAIN adx : /\ adx[i].plus + adx[i].minus <= Hundred + 100
                                 /\ adx[i].adx \in 0 .. Hundred

\* The price-like lines stay among the prices they are made of: the VWAP and
\* the Ichimoku mids between the low and the high of their windows, the ATR at
\* most the largest true range, the bands around their middle.
LinesStayAmongPrices(bars) ==
    LET vwap == VWAP(bars)  cloud == Ichimoku(bars)  atr == ATR(bars)
        bb == BollingerBands(Closes(bars))
        Within(x, i, n) ==
            Lowest(bars, i - n + 1, i) - 1 <= x /\ x <= Highest(bars, i - n + 1, i) + 1
    IN  /\ \A i \in DOMAIN vwap :
            i >= VwapPeriod /\ vwap[i] # 0 => Within(vwap[i], i, VwapPeriod)
        /\ \A i \in DOMAIN cloud : i >= SpanB => Within(cloud[i].spanB, i, SpanB)
        /\ \A i \in DOMAIN cloud : i >= Base => Within(cloud[i].spanA, i, Max({Base, Conversion}))
        /\ \A i \in DOMAIN atr :
            atr[i] <= Max({TrueRange(bars, j) : j \in 2 .. Len(bars)}) + 1
        /\ \A i \in DOMAIN bb : bb[i].lower <= bb[i].middle /\ bb[i].middle <= bb[i].upper

\* The levels partition the swing points: every point is a touch of exactly
\* one level, the levels ascend, and each is dated by one of the swings.
LevelsPartitionSwings(bars) ==
    LET pts == SwingPoints(bars)  levels == SupportResistance(bars)
    IN  /\ Len(bars) >= 2 * Swing + 1 =>
            Len(pts) = MapThenSumSet(LAMBDA i : levels[i].touches, DOMAIN levels)
        /\ \A i, j \in DOMAIN levels : i < j => levels[i].price <= levels[j].price
        /\ \A i \in DOMAIN levels : \E x \in DOMAIN pts : pts[x].at = levels[i].at

\* Whatever day the chart starts on, its averages are those of the whole
\* series: the bars read before the first visible day are enough, and where
\* they are not (the listing is younger) the average is left out, never wrong.
ChartWarmupSuffices(bars) ==
    \A visible \in DOMAIN bars : \A n \in ChartLengths :
        ChartSeries(bars, visible).lines[n] =
            {<<i, SMA(Closes(bars), n)[i]>> : i \in {j \in visible .. Len(bars) : j >= n}}
=============================================================================
