----------------------------- MODULE PickScores -----------------------------
(***************************************************************************)
(* The score of a candidate and the choice of the day's picks: from some   *)
(* candidates, one more at a time, those kept under the limit per sector.  *)
(***************************************************************************)
EXTENDS Decimals, Sequences, SequencesExt

CONSTANTS
    LiquidityStep,      \* 100 million yen, as a trading value
    Applicants,         \* [symbol, sector, metrics] a screening may pass
    NoSector,           \* an empty Sector33CodeName
    PickTopN, MaxPerSector

\* Create replaces a limit below one and a negative limit per sector by the
\* defaults; the metrics are whatever the indicators give.
Metrics == [signals : Int, volume : Int, adx : Int, atr : Int, value : Int, rsi : Int]

ASSUME ScoreAssumption ==
    /\ LiquidityStep \in Nat /\ PickTopN \in Nat \ {0} /\ MaxPerSector \in Nat
    /\ \A c \in Applicants : c.symbol \in Int /\ c.metrics \in Metrics

VARIABLE passed         \* the candidates that passed the screening

ScoreInit == passed = {}

\* EvaluateDailyPickCandidate has passed one more brand.
Pass(c) ==
    /\ \A x \in passed : x.symbol # c.symbol
    /\ passed' = passed \cup {c}

ScoreNext == \E c \in Applicants : Pass(c)

ScoreSpec == ScoreInit /\ [][ScoreNext]_passed

-----------------------------------------------------------------------------
\* The curves, in 1/Unit: <<value, share of the weight>>.
Curve(points) == [i \in DOMAIN points |-> <<RoundDiv(points[i][1] * Unit, 1000),
                                            RoundDiv(points[i][2] * Unit, 100)>>]
SignalCurve == Curve(<<<<1000, 30>>, <<2000, 65>>, <<3000, 100>>, <<4000, 100>>>>)
VolumeCurve == Curve(<<<<1000, 0>>, <<1500, 40>>, <<2000, 70>>, <<3000, 100>>>>)
ADXCurve == Curve(<<<<15000, 0>>, <<20000, 35>>, <<30000, 80>>, <<40000, 100>>>>)
ATRRatioCurve == Curve(<<<<10, 0>>, <<20, 100>>, <<50, 100>>, <<100, 0>>>>)
RSICurve == Curve(<<<<30000, 40>>, <<45000, 90>>, <<60000, 100>>, <<70000, 50>>,
                    <<80000, 10>>, <<90000, 0>>>>)
LiquidityCurve ==
    LET c == Curve(<<<<1000, 0>>, <<3000, 40>>, <<10000, 75>>, <<50000, 100>>>>)
    IN  [i \in DOMAIN c |-> <<FMul(c[i][1], LiquidityStep), c[i][2]>>]

\* normalizeByBreakpoints
Normalized(v, curve) ==
    IF v <= curve[1][1] THEN curve[1][2]
    ELSE IF v >= Last(curve)[1] THEN Last(curve)[2]
    ELSE LET i == Max({j \in 1 .. Len(curve) - 1 : curve[j][1] <= v})
             p == curve[i]  q == curve[i + 1]
         IN  p[2] + RoundDiv((q[2] - p[2]) * (v - p[1]), q[1] - p[1])

\* ScoreDailyPick with the default weights; 100 is Hundred.
Score(m) ==
      30 * Normalized(m.signals * Unit, SignalCurve)
    + 20 * Normalized(m.volume, VolumeCurve)
    + 20 * Normalized(m.adx, ADXCurve)
    + 10 * Normalized(m.atr, ATRRatioCurve)
    + 10 * Normalized(m.value, LiquidityCurve)
    + 10 * Normalized(m.rsi, RSICurve)

\* By score, and by symbol among equals.
Outranks(c, d) ==
    \/ Score(c.metrics) > Score(d.metrics)
    \/ Score(c.metrics) = Score(d.metrics) /\ c.symbol < d.symbol

\* Best first.
Ordered(C) ==
    [i \in 1 .. Cardinality(C) |->
        CHOOSE c \in C : Cardinality({x \in C : Outranks(x, c)}) = i - 1]

\* Mutant of Choose: the limit per sector is met after the best are taken.
ChooseThenCap(C) ==
    LET order == Ordered(C)
        best == SubSeq(order, 1, Min({PickTopN, Len(order)}))
        Fits(i) == best[i].sector = NoSector
            \/ Cardinality({j \in 1 .. i - 1 : best[j].sector = best[i].sector}) < MaxPerSector
    IN  {best[i] : i \in {j \in DOMAIN best : Fits(j)}}

\* The places are taken, or those of the candidate's sector are; zero means
\* no limit.
NoRoom(kept, c) ==
    \/ Cardinality(kept) >= PickTopN
    \/ /\ MaxPerSector > 0 /\ c.sector # NoSector
       /\ Cardinality({x \in kept : x.sector = c.sector}) >= MaxPerSector

\* RankDailyPickCandidates: down the order while there is room.
Choose(C) ==
    FoldLeft(LAMBDA kept, c : IF NoRoom(kept, c) THEN kept ELSE kept \cup {c},
             {}, Ordered(C))

\* scoreBandLower: ten bands, the last with 100 in it.
BandLower(score) == Min({90, (score \div (10 * Unit)) * 10})

\* AggregateDailyPicksByScoreBand, as the members of each band that has any.
ScoreBands(C) ==
    [lower \in {BandLower(Score(c.metrics)) : c \in C} |->
        {c \in C : BandLower(Score(c.metrics)) = lower}]

-----------------------------------------------------------------------------
\* The score stays within 0..100 and a candidate that is at least as strong in
\* everything that should be strong, and equally volatile and heated, never
\* scores less.
StrongerScoresHigher ==
    \A c, d \in passed :
        LET m == c.metrics  n == d.metrics IN
        /\ Score(m) \in 0 .. Hundred
        /\ (/\ m.atr = n.atr /\ m.rsi = n.rsi
            /\ \A f \in {"signals", "volume", "adx", "value"} : m[f] <= n[f])
            => Score(m) <= Score(n)

\* Every candidate left out has a reason: either as many better ones as there
\* are places were kept, or its sector was full with better ones.
PicksAreTheBest ==
    \A c \in passed \ Choose(passed) :
        LET better == {x \in Choose(passed) : Outranks(x, c)} IN
        \/ Cardinality(better) = PickTopN
        \/ /\ MaxPerSector > 0 /\ c.sector # NoSector
           /\ Cardinality({x \in better : x.sector = c.sector}) = MaxPerSector

\* A candidate costs at most one of the others its place, and lets nobody in
\* who would not be there without it.
OneInOneOut ==
    \A c \in passed : LET others == Choose(passed \ {c}) IN
        /\ Choose(passed) \subseteq others \cup {c}
        /\ Cardinality(others \ Choose(passed)) <= 1

\* Each candidate counts in one of the ten bands of the statistics, and a
\* higher band means higher scores.
BandsFollowScores ==
    LET bands == ScoreBands(passed) IN
    /\ DOMAIN bands \subseteq {10 * i : i \in 0 .. 9}
    /\ \A i, j \in DOMAIN bands : i < j =>
        \A c \in bands[i], d \in bands[j] : Score(c.metrics) < Score(d.metrics)

\* The day's picks are the best the limits allow, by a score that is monotone;
\* one more candidate displaces at most one (ScoreDailyPick,
\* RankDailyPickCandidates, AggregateDailyPicksByScoreBand).
PicksAreSound ==
    /\ StrongerScoresHigher
    /\ PicksAreTheBest
    /\ OneInOneOut
    /\ BandsFollowScores
=============================================================================
