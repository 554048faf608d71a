------------------------------- MODULE Returns -------------------------------
(***************************************************************************)
(* Figures of return and risk from a series of prices (return_analytics).  *)
(* Annualisation, a power in floating point, is left out: risk is per day. *)
(***************************************************************************)
EXTENDS Decimals, Sequences, SequencesExt, FiniteSets

DailyReturns(p) ==
    [i \in 1 .. Len(p) - 1 |-> IF p[i] = 0 THEN 0 ELSE FDiv(p[i + 1], p[i]) - Unit]

CumulativeReturn(p) ==
    IF Len(p) < 2 \/ p[1] = 0 THEN 0 ELSE FDiv(Last(p), p[1]) - Unit

Fall(p, peak) == IF peak = 0 THEN 0 ELSE FDiv(p - peak, peak)

\* One pass: the peak so far and the worst fall below it.
MaxDrawdown(p) ==
    IF p = <<>> THEN 0 ELSE
    FoldLeft(LAMBDA acc, x :
                LET peak == Max({acc.peak, x})
                IN  [peak |-> peak, worst |-> Min({acc.worst, Fall(x, peak)})],
             [peak |-> p[1], worst |-> 0], p).worst

MeanOf(xs) == IF xs = <<>> THEN 0 ELSE RoundDiv(SumOver(xs, 1, Len(xs)), Len(xs))

\* sampleCovariance, and sampleVariance on the diagonal.
Covariance(xs, ys) ==
    LET n == Len(xs)  mx == MeanOf(xs)  my == MeanOf(ys) IN
    IF n < 2 \/ n # Len(ys) THEN 0
    ELSE RoundDiv(MapThenSumSet(LAMBDA i : FMul(xs[i] - mx, ys[i] - my), 1 .. n), n - 1)

Deviation(xs) == Root(Covariance(xs, xs))

\* AnnualizedDownsideDeviation, per day: only returns below the target count.
DownsideDeviation(xs, target) ==
    LET n == Len(xs)
        Below(i) == IF xs[i] < target THEN FMul(xs[i] - target, xs[i] - target) ELSE 0
    IN  IF n < 2 THEN 0 ELSE Root(RoundDiv(MapThenSumSet(Below, 1 .. n), n - 1))

Ratio(x, y) == IF y = 0 THEN 0 ELSE FDiv(x, y)

Beta(xs, ys) == Ratio(Covariance(xs, ys), Covariance(ys, ys))

Correlation(xs, ys) ==
    IF Len(xs) < 2 \/ Len(xs) # Len(ys) THEN 0
    ELSE Ratio(Covariance(xs, ys), FMul(Deviation(xs), Deviation(ys)))
=============================================================================
