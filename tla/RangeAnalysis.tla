---------------------------- MODULE RangeAnalysis ----------------------------
(***************************************************************************)
(* Return analysis of a symbol against a benchmark over a range of dates.  *)
(***************************************************************************)
EXTENDS Returns

CONSTANTS
    ReturnPrices,    \* the adjusted closes a day may bring; 0 is no bar
    BenchmarkPrices, \* those of the benchmark
    MaxReturnDays,   \* bound: length of the range
    MinReturnDays,   \* fewer common days give no figures
    SectorDays       \* {5, 25}: the short returns of a sector

ASSUME RangeAssumption ==
    /\ ReturnPrices \subseteq Nat /\ BenchmarkPrices \subseteq Nat
    /\ MinReturnDays \in Nat \ {0}
    /\ SectorDays \subseteq Nat

VARIABLE joint      \* one record per date: the symbol's and the benchmark's close

\* Mutant of AlignByDate: the benchmark may be missing.
AlignOnStock(days) ==
    FoldLeft(LAMBDA both, d : IF d.stock # 0 THEN Append(both, d) ELSE both, <<>>, days)

\* The inner join of the two series on the date.
AlignByDate(days) ==
    FoldLeft(LAMBDA both, d : IF d.stock # 0 /\ d.bench # 0 THEN Append(both, d) ELSE both,
             <<>>, days)

\* alignByDate, then the figures of the common days.
GetReturnAnalysis(days) ==
    LET both == AlignByDate(days)
        stock == [i \in DOMAIN both |-> both[i].stock]
        bench == [i \in DOMAIN both |-> both[i].bench]
        xs == DailyReturns(stock)  ys == DailyReturns(bench)
        cum == CumulativeReturn(stock)  market == CumulativeReturn(bench)
    IN  IF Len(both) < MinReturnDays THEN [days |-> Len(both), known |-> FALSE]
        ELSE [days |-> Len(both), known |-> TRUE, cumulative |-> cum,
              drawdown |-> MaxDrawdown(stock), volatility |-> Deviation(xs),
              downside |-> DownsideDeviation(xs, 0),
              calmar |-> Ratio(cum, -MaxDrawdown(stock)),
              beta |-> Beta(xs, ys), correlation |-> Correlation(xs, ys),
              market |-> market, excess |-> cum - market]

-----------------------------------------------------------------------------
(* Performance of sectors over the same range; the two series stand for    *)
(* two sectors here.  A close of zero is skipped.                          *)

SectorSeries(days, code) ==
    FoldLeft(LAMBDA series, d : IF d[code] # 0 THEN Append(series, d[code]) ELSE series,
             <<>>, days)

\* calcNDayReturn33: of the sector's own bars; none when there are too few.
NDayReturn(series, n) ==
    IF Len(series) <= n THEN {} ELSE {FDiv(Last(series), series[Len(series) - n]) - Unit}

\* calcItem
SectorItem(series) ==
    [latest |-> Last(series),
     period |-> FDiv(Last(series), series[1]) - Unit,
     short |-> [n \in SectorDays |-> NDayReturn(series, n)]]

\* CalcSectorPerformance: the sectors with a bar.  The answer lists the best
\* period first, which says nothing that the items do not.
GetSectorPerformance(days) ==
    [code \in {c \in {"stock", "bench"} : SectorSeries(days, c) # <<>>} |->
        SectorItem(SectorSeries(days, code))]

-----------------------------------------------------------------------------
RangeInit == joint = <<>>

\* A further date: either side may have no bar (a suspension, a late import).
ReturnDay(s, b) ==
    Len(joint) < MaxReturnDays /\ joint' = Append(joint, [stock |-> s, bench |-> b])

RangeNext ==
    \E s \in ReturnPrices \cup {0}, b \in BenchmarkPrices \cup {0} : ReturnDay(s, b)

RangeSpec == RangeInit /\ [][RangeNext]_joint

\* The drawdown found in one pass is the worst fall between any two days of
\* the joined range, the later below the earlier.
DrawdownIsWorstFall ==
    LET p == [i \in DOMAIN AlignByDate(joint) |-> AlignByDate(joint)[i].stock]
    IN  MaxDrawdown(p) =
            Min({0} \cup UNION {{Fall(p[j], p[i]) : j \in i .. Len(p)} : i \in DOMAIN p})

\* The figures compare like with like: over the common dates a symbol that
\* moves with its benchmark has no excess return and a beta of one, whatever
\* bars either side misses, and no figure is drawn from a date without both.
BenchmarkAgainstItself ==
    LET both == AlignByDate(joint)  a == GetReturnAnalysis(joint) IN
    /\ \A i \in DOMAIN both : both[i].stock # 0 /\ both[i].bench # 0
    /\ a.known /\ (\A i \in DOMAIN both : both[i].stock = both[i].bench) =>
            /\ a.excess = 0
            /\ a.volatility # 0 => a.beta = Unit

\* The short and the long returns of a sector are made of the same bars: the
\* return over all its bars but the first is the period's return, and a sector
\* without the range's first days gets no short return it lacks the bars for.
SectorReturnsAgree ==
    LET items == GetSectorPerformance(joint) IN
    \A c \in DOMAIN items : \A n \in SectorDays :
        LET len == Len(SectorSeries(joint, c)) IN
        /\ (items[c].short[n] = {}) = (len <= n)
        /\ len = n + 1 => items[c].short[n] = {items[c].period}

\* The drawdown bounds the other figures of risk: a total loss is the deepest,
\* a range that ends below its start has one at least as deep, and without any
\* there is no downside and no ratio to it.
DrawdownBoundsRisk ==
    LET a == GetReturnAnalysis(joint) IN
    a.known =>
        /\ a.drawdown \in -Unit .. 0
        /\ a.cumulative < 0 => a.drawdown <= a.cumulative
        /\ a.drawdown = 0 => a.downside = 0 /\ a.calmar = 0

\* A correlation is between -1 and 1, and that of a symbol with a benchmark it
\* moves with is one, but for what rounding adds: the square roots are cut at
\* the fixed point, here at hundredths, where the code keeps sixteen digits.
CorrelationWithinOne ==
    LET both == AlignByDate(joint)  a == GetReturnAnalysis(joint) IN
    a.known =>
        /\ Abs(a.correlation) <= Unit + Unit \div 10
        /\ (\A i \in DOMAIN both : both[i].stock = both[i].bench) /\ a.volatility # 0 =>
               a.correlation \in Unit .. Unit + Unit \div 50
=============================================================================
