---------------------------- MODULE MCComponents ----------------------------
(***************************************************************************)
(* One run for the components that share no state: the value of subject    *)
(* says which of them a behaviour is about, and the others stay as they    *)
(* begin.  The modules extended have their constants from the .cfg.         *)
(***************************************************************************)
EXTENDS Backtest, Tape, PickScores, Paging, Ranking, SignalStats, AnalyzePrices,
    ExternalData, Requests, RangeAnalysis

CONSTANT Subjects   \* the components a run looks at
VARIABLE subject

-----------------------------------------------------------------------------
(* What comes from outside: J-Quants day prices, index charts, statements  *)
(* and announcements.                                                      *)

TwoCodes == {[code |-> 13010, dated |-> TRUE, close |-> 1],
             [code |-> 13015, dated |-> TRUE, close |-> 2],
             [code |-> 99990, dated |-> FALSE, close |-> 1]}

\* A loss that is restated as a gain, and a quarter filed after a year.
Doc(s, d, t, e, v) == [sym |-> s, day |-> d, type |-> t, eps |-> e, version |-> v]
FourDocuments ==
    {Doc(1, 1, "FY", -1, 1), Doc(1, 1, "FY", 6, 2), Doc(2, 1, "FY", 5, 1), Doc(2, 2, "Q", 0, 1)}

-----------------------------------------------------------------------------
(* Charts and figures.  The periods are short so that a series of a few    *)
(* bars fills every window; the three bars have one range inside another,  *)
(* a falling close and a volume that triples.                              *)

BarOf(h, l, c, v) == [high |-> h * Unit, low |-> l * Unit, close |-> c * Unit, volume |-> v]
ThreeBars == {BarOf(11, 9, 10, 1), BarOf(15, 5, 14, 3), BarOf(13, 7, 8, 1)}

ThreeSignals ==
    {[method |-> "a", action |-> "Buy", rank |-> {3}, score |-> {50}],
     [method |-> "a", action |-> "Sell", rank |-> {11}, score |-> {60}],
     [method |-> "b", action |-> "Buy", rank |-> {}, score |-> {55}]}

\* Metrics at, between and beyond the points of each curve, with ties.
Measured(s, v, a, t, l, r) ==
    [signals |-> s, volume |-> v, adx |-> a, atr |-> t, value |-> l, rsi |-> r]
Applicant(symbol, sector, metrics) ==
    [symbol |-> symbol, sector |-> sector, metrics |-> metrics]

SomeApplicants ==
    {Applicant(1, "x", Measured(3, 450, 5000, 3, 6000, 6000)),
     Applicant(2, "x", Measured(1, 175, 2500, 3, 6000, 6000)),
     Applicant(3, "x", Measured(2, 175, 2500, 3, 6000, 6000)),
     Applicant(4, "y", Measured(2, 90, 2500, 3, 200, 6000)),
     Applicant(5, "y", Measured(2, 90, 2500, 7, 200, 7500)),
     Applicant(6, "", Measured(1, 90, 1000, 20, 50, 9500)),
     Applicant(7, "", Measured(4, 210, 1000, 1, 700, 3500)),
     Applicant(2, "z", Measured(2, 250, 3500, 2, 200, 6500)),
     Applicant(8, "y", Measured(2, 90, 2500, 3, 200, 6000))}

-----------------------------------------------------------------------------
(* The strategy ranking: two workers, four brands of which three have      *)
(* enough bars, two runs with different results and a read that may fail.  *)

Won(r, t) == [ret |-> r, trades |-> t]

SomeBrands == <<1, 2, 3, 4>>
TwoStrategies == <<"macd", "rsi">>
TwoOutcomes ==
    <<[macd |-> <<Won(2, 1), Won(-1, 2), Won(0, 0), Won(1, 1)>>,
       rsi |-> <<Won(2, 1), Won(1, 1), Won(0, 0), Won(3, 1)>>],
      [macd |-> <<Won(-2, 1), Won(1, 2), Won(4, 1), Won(1, 1)>>,
       rsi |-> <<Won(-3, 1), Won(1, 1), Won(0, 0), Won(0, 1)>>]>>

-----------------------------------------------------------------------------
(* The requests: paged listings over a table that changes meanwhile, and   *)
(* what each handler reads from a request.                                 *)

Entry(i, s, d) == [id |-> i, symbol |-> s, day |-> d]

SomeRows == {Entry(1, 1, 1), Entry(2, 2, 2), Entry(3, 3, 2), Entry(4, 3, 2),
             Entry(5, 1, 2), Entry(6, 4, 3)}

-----------------------------------------------------------------------------
(* The rows adjusted for corporate actions when batches run one at a time; *)
(* the other runs of AnalyzePrices let them overlap.                       *)

SplitAndConsolidation == {<<"split", 1>>, <<"consolidation", 2>>}

-----------------------------------------------------------------------------
\* What the proofs about these components ask of their constants holds here.
ASSUME ComponentConstants ==
    RowsHaveIds /\ RankingParams

\* The first page is looked at under its subject.
ComponentsInit ==
    /\ subject \in Subjects
    /\ BtInit
    /\ ExternalInit
    /\ TapeInit /\ RangeInit /\ SignalInit
    /\ ScoreInit /\ RankingInit /\ Init
    /\ IF subject = "pages" THEN PagingInit
       ELSE /\ rows = {} /\ listing = "none" /\ step = "done" /\ page = 0
            /\ cursor = 0 /\ total = 0 /\ dates = {} /\ answered = <<>>
            /\ stable = {} /\ ever = {} /\ changes = 0
    /\ IF subject = "requests" THEN RequestsInit
       ELSE request = "none" /\ reply = NoReply

ComponentsNext ==
    /\ UNCHANGED subject
    /\ IF subject = "backtest" THEN BtNext ELSE UNCHANGED btVars
    /\ IF subject = "feed" THEN ApiNext ELSE UNCHANGED apiVars
    /\ IF subject = "indices" THEN IndexNext ELSE UNCHANGED indexVars
    /\ IF subject = "statements" THEN FinNext ELSE UNCHANGED finVars
    /\ IF subject = "calendar" THEN CalendarNext ELSE UNCHANGED calendarVars
    /\ IF subject = "chart" THEN TapeNext ELSE UNCHANGED tape
    /\ IF subject = "returns" THEN RangeNext ELSE UNCHANGED joint
    /\ IF subject = "signals" THEN SignalNext ELSE UNCHANGED signalVars
    /\ IF subject = "scores" THEN ScoreNext ELSE UNCHANGED passed
    /\ IF subject = "ranking" THEN RankingNext ELSE UNCHANGED rankingVars
    /\ IF subject = "pages" THEN PagingNext ELSE UNCHANGED pagingVars
    /\ IF subject = "requests" THEN RequestsNext ELSE UNCHANGED requestVars
    /\ IF subject = "serial" THEN Next ELSE UNCHANGED vars

allVars == <<subject, btVars, apiVars, indexVars,
    finVars, calendarVars, tape, joint, signalVars,
    passed, rankingVars, pagingVars, requestVars, vars>>

ComponentsSpec == ComponentsInit /\ [][ComponentsNext]_allVars

-----------------------------------------------------------------------------
(* The properties of the components, each where its component is looked at;   *)
(* those of the modules extended hold of the others' first states, too.       *)

\* The indicators and levels of a chart are within the bars they are made of,
\* on each evening: when the day's bar is in.
ChartsAreSound ==
    [][Len(tape') > Len(tape) =>
           /\ SignalsAreMoments(tape')
           /\ OscillatorsInScale(tape')
           /\ LinesStayAmongPrices(tape')
           /\ LevelsPartitionSwings(tape')
           /\ ChartWarmupSuffices(tape')]_tape

\* The figures of a range agree with their definitions and with each other.
ReturnsAreSound ==
    subject = "returns" =>
        /\ DrawdownIsWorstFall
        /\ BenchmarkAgainstItself
        /\ SectorReturnsAgree
        /\ DrawdownBoundsRisk
        /\ CorrelationWithinOne
=============================================================================
