----------------------------- MODULE SignalStats -----------------------------
(***************************************************************************)
(* Signal performance: what the price of one symbol did after each signal  *)
(* stored for it, and the summaries by method, rank and score.  Signals    *)
(* are written by another program; an optional value is a set of at most   *)
(* one element.                                                            *)
(***************************************************************************)
EXTENDS Decimals, Sequences, SequencesExt, FiniteSets

CONSTANTS
    SignalShapes,   \* [method, action, rank, score]: what a signal may be
    SignalPrices,   \* adjusted closes a bar may have
    SignalHorizons, \* {5, 10, 20}
    LookAhead,      \* 40: days read beyond the end of the range
    MaxSignalDays,  \* bound: calendar days
    MaxSignals      \* bound: signals stored

AtMostOne(S) == \A x, y \in S : x = y

\* Prices are not negative, horizons count days, ranks count from one and a
\* score is a number.
ASSUME SignalAssumption ==
    /\ SignalPrices \subseteq Nat /\ SignalHorizons \subseteq Nat /\ LookAhead \in Nat
    /\ \A shape \in SignalShapes :
         /\ shape.rank \subseteq Nat \ {0} /\ AtMostOne(shape.rank)
         /\ shape.score \subseteq Int /\ AtMostOne(shape.score)

VARIABLES
    bar,        \* day -> the bar's adjusted close, as an optional value
    signals     \* [day, shape], one per day, method and action

signalVars == <<bar, signals>>

SignalToday == Len(bar)

SignalInit == bar = <<>> /\ signals = {}

\* A calendar day passes, with or without a bar.
SignalDay(price) ==
    /\ SignalToday < MaxSignalDays
    /\ bar' = Append(bar, price)
    /\ UNCHANGED signals

StoreSignal(shape) ==
    /\ SignalToday > 0 /\ Cardinality(signals) < MaxSignals
    /\ \A s \in signals :
        s.day = SignalToday => s.shape.method # shape.method \/ s.shape.action # shape.action
    /\ signals' = signals \cup {[day |-> SignalToday, shape |-> shape]}
    /\ UNCHANGED bar

SignalNext ==
    \/ \E price \in SUBSET SignalPrices : Cardinality(price) <= 1 /\ SignalDay(price)
    \/ \E shape \in SignalShapes : StoreSignal(shape)

SignalSpec == SignalInit /\ [][SignalNext]_signalVars

-----------------------------------------------------------------------------
\* ListRangePricesBySymbols up to LookAhead days after the range, and
\* filterPricesFrom: the bars from the signal's day on, in order.
DaysFrom(s, to) ==
    {d \in 1 .. SignalToday : s.day <= d /\ d <= to + LookAhead /\ bar[d] # {}}

PriceOf(d) == CHOOSE x \in bar[d] : TRUE

PricesFrom(s, to) ==
    LET days == DaysFrom(s, to)
        Nth(i) == CHOOSE d \in days : Cardinality({e \in days : e < d}) = i - 1
    IN  [i \in 1 .. Cardinality(days) |-> PriceOf(Nth(i))]

\* Mutant of ForwardReturns: the last bar stands in for one still to come.
ReturnsSoFar(prices, action) ==
    IF prices = <<>> \/ prices[1] = 0 THEN {}
    ELSE {[h \in SignalHorizons |->
            {FDiv(prices[Min({h + 1, Len(prices)})], prices[1]) - Unit}]}

\* Nothing without a base price; nothing yet for a horizon still to come.
ForwardReturns(prices, action) ==
    IF prices = <<>> \/ prices[1] = 0 THEN {}
    ELSE {[h \in SignalHorizons |->
            IF h >= Len(prices) THEN {}
            ELSE LET r == FDiv(prices[h + 1], prices[1]) - Unit
                 IN  {IF action = "Sell" THEN -r ELSE r}]}

Returns(s, to) == ForwardReturns(PricesFrom(s, to), s.shape.action)

\* The known returns of some signals at a horizon, as a function of the signal.
Known(sigs, h, to) ==
    LET have == {s \in sigs : \E r \in Returns(s, to) : r[h] # {}}
    IN  [s \in have |-> CHOOSE x \in (CHOOSE r \in Returns(s, to) : TRUE)[h] : TRUE]

\* calcHorizonStats.  The median of an even number is the mean of the middle
\* two; here twice the median.
HorizonStats(r) ==
    LET n == Cardinality(DOMAIN r)
        values == {r[s] : s \in DOMAIN r}
        Nth(i) == CHOOSE v \in values : /\ Cardinality({s \in DOMAIN r : r[s] < v}) < i
                                       /\ i <= Cardinality({s \in DOMAIN r : r[s] <= v})
    IN  IF n = 0 THEN [n |-> 0, wins |-> 0, average |-> 0, median |-> 0, best |-> 0, worst |-> 0]
        ELSE [n |-> n, wins |-> Cardinality({s \in DOMAIN r : r[s] > 0}),
              average |-> RoundDiv(MapThenSumSet(LAMBDA s : r[s], DOMAIN r), n),
              median |-> IF n % 2 = 0 THEN Nth(n \div 2) + Nth(n \div 2 + 1)
                         ELSE 2 * Nth((n + 1) \div 2),
              best |-> Max(values), worst |-> Min(values)]

BandStats(sigs, to) == [h \in SignalHorizons |-> HorizonStats(Known(sigs, h, to))]

\* AggregateSignalPerformance
Summaries(to) ==
    [method \in {s.shape.method : s \in signals} |->
        LET mine == {s \in signals : s.shape.method = method}
        IN  [count |-> Cardinality(mine),
             skipped |-> Cardinality({s \in mine : Returns(s, to) = {}}),
             stats |-> BandStats(mine, to)]]

\* rankBandDefs; -1 is no limit.
RankBands == <<[min |-> 1, max |-> 3], [min |-> 4, max |-> 10], [min |-> 11, max |-> -1]>>

\* Mutant of InRankBand: a band begins behind its first rank.
BehindBandStart(rank, i) ==
    RankBands[i].min < rank /\ (RankBands[i].max = -1 \/ rank <= RankBands[i].max)

InRankBand(rank, i) ==
    RankBands[i].min <= rank /\ (RankBands[i].max = -1 \/ rank <= RankBands[i].max)

\* AggregateByRankBand: a signal counts for the first band its rank is in.
ByRankBand(i) ==
    {s \in signals : \E rank \in s.shape.rank :
        InRankBand(rank, i) /\ \A j \in 1 .. i - 1 : ~InRankBand(rank, j)}

Scored == {s \in signals : s.shape.score # {}}
ScoreOf(s) == CHOOSE x \in s.shape.score : TRUE

\* The q-th quarter of n, by number.
QuartileBounds(q, n) == <<((q - 1) * n) \div 4 + 1, (q * n) \div 4>>

\* The scored signals, the lowest score first; on a tie in the order read.
SortedByScore ==
    LET read == SetToSeq(Scored)
        Before(j, i) == \/ ScoreOf(read[j]) < ScoreOf(read[i])
                        \/ ScoreOf(read[j]) = ScoreOf(read[i]) /\ j < i
        Nth(n) == CHOOSE i \in DOMAIN read :
                      Cardinality({j \in DOMAIN read : Before(j, i)}) = n - 1
    IN  [n \in DOMAIN read |-> read[Nth(n)]]

\* AggregateByScoreQuartile: none for fewer than four scored signals.
ByScoreQuartile ==
    LET n == Cardinality(Scored) IN
    IF n < 4 THEN <<>>
    ELSE [q \in 1 .. 4 |->
            {SortedByScore[i] : i \in QuartileBounds(q, n)[1] .. QuartileBounds(q, n)[2]}]

-----------------------------------------------------------------------------
\* A return once given for a signal is given ever after: the range asked for,
\* the days that pass and the signals stored since do not change it.
ReturnsAreFinal ==
    [][signalVars' # signalVars =>
       \A s \in signals : \A h \in SignalHorizons : \A to \in s.day .. SignalToday :
        \A later \in to .. SignalToday' :
            LET was == Known({s}, h, to)
            IN  s \in DOMAIN was => Known({s}, h, later)'[s] = was[s]]_signalVars

\* The summaries leave no signal out and count none twice: by method all of
\* them, by rank those with a rank, by score those with a score.
BandsPartitionSignals ==
    LET total == Summaries(SignalToday)
        counts == [m \in DOMAIN total |-> total[m].count]
    IN
    /\ MapThenSumSet(LAMBDA m : counts[m], DOMAIN counts) = Cardinality(signals)
    /\ \A s \in signals : s.shape.rank # {} =>
        Cardinality({i \in 1 .. 3 : s \in ByRankBand(i)}) = 1
    /\ ByScoreQuartile # <<>> =>
        /\ UNION {ByScoreQuartile[q] : q \in 1 .. 4} = Scored
        /\ \A p, q \in 1 .. 4 : p < q =>
            \A s \in ByScoreQuartile[p], t \in ByScoreQuartile[q] :
                s # t /\ ScoreOf(s) <= ScoreOf(t)

\* Figures of a band fit together: no more evaluated than signals that were
\* not skipped, median and average between the worst and the best.
FiguresInOrder ==
    LET total == Summaries(SignalToday) IN
    \A m \in DOMAIN total : \A h \in SignalHorizons :
        LET f == total[m].stats[h] IN
        /\ f.n <= total[m].count - total[m].skipped
        /\ f.wins <= f.n
        /\ 2 * f.worst <= f.median /\ f.median <= 2 * f.best
        /\ f.worst <= f.average /\ f.average <= f.best

\* The summaries of the signals' performance partition the signals and add up.
SignalFiguresAddUp == BandsPartitionSignals /\ FiguresInOrder
=============================================================================
