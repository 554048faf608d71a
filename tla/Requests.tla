------------------------------ MODULE Requests ------------------------------
(***************************************************************************)
(* The HTTP handlers: what each reads from a request, which requests it    *)
(* turns down, and what reaches the use case of the others.  A parameter   *)
(* is a member of a small class of texts: a text that is not there, a      *)
(* malformed one, or a value.                                              *)
(***************************************************************************)
EXTENDS Integers, FiniteSets

CONSTANTS Numbers,   \* the whole numbers requests carry
          DayNumbers \* the days they carry; the clock says Today

ASSUME RequestsAssumption == Numbers \subseteq Int /\ DayNumbers \subseteq Nat

Absent == -1000      \* the parameter is not in the request
Malformed == -2000   \* it cannot be read as a number or a date
NotANumber == -3000  \* "NaN", which strconv.ParseFloat reads without an error
Today == 500

VARIABLES request, reply
requestVars == <<request, reply>>

Texts == {"absent", "short", "long", "odd"}
Options == {"absent", "known", "unknown"}
Dates == DayNumbers \cup {Absent, Malformed}
Integral == Numbers \cup {Absent, Malformed}
Decimal == Integral \cup {NotANumber}

NoLimit == 0

Request(path, texts, froms, tos, numbers, rates, choices) ==
    [path : {path}, text : texts, from : froms, to : tos,
     number : numbers, rate : rates, choice : choices,
     cost : IF path = "/backtest" THEN rates ELSE {Absent}]

None == {Absent}

\* NewRouter: the paths, each with the kinds of parameters its handler reads.
\* /daytrade/stats stands for the five day trade pages that read a range only;
\* four paths read no parameter and are left out.
Routes ==
    UNION {
      UNION {Request(p, Texts, Dates, Dates, None, None, Options) :
                p \in {"/daily-prices", "/return-analysis"}},
      UNION {Request(p, Texts, Dates, Dates, None, None, {"absent"}) :
                p \in {"/daily-prices/chart", "/technical-indicators"}},
      Request("/backtest", Texts, {Absent, Today}, {Absent, Today - 1}, Integral, Decimal, Options),
      UNION {Request(p, {"absent"}, Dates, Dates, None, None, Options) :
                p \in {"/signal-performance", "/sector-performance", "/daytrade/summary",
                       "/daytrade/stats", "/daily-stock-picks/stats"}},
      UNION {Request(p, Texts, None, None, Integral, None, Options) :
                p \in {"/stock-brands", "/analyze-stock-brand-price-histories",
                       "/fin-statements", "/strategy-ranking-stocks"}},
      Request("/multiple-signal-stocks", Texts, Dates, None, Integral, None, {"absent"}),
      Request("/fin-announcements", Texts, Dates, Dates, Integral, None, {"absent"}),
      UNION {Request(p, Texts, None, None, None, None, {"absent"}) :
                p \in {"/valuation", "/fin-announcements/next", "/daytrade/executions/import"}},
      Request("/daily-stock-picks/dates", {"absent"}, None, None, Integral, None, {"absent"}),
      UNION {Request(p, Texts, Dates, None, None, None, Options) :
                p \in {"/daily-stock-picks", "/quiz/questions", "/quiz/chart", "/quiz/answers",
                       "/quiz/results", "/daytrade/executions", "/daytrade/trades/note"}}}

\* A symbol that must be there: at most ten letters and digits.
RequiredSymbol(text) == text = "short"
OptionalSymbol(text) == text \in {"absent", "short"}

\* Mutant of DateRange: the order of the two days is not compared.
DateRangeUnordered(q) == q.from # Malformed /\ q.to # Malformed

\* parseDateRange: both days are optional, and in order when both are there.
DateRange(q) ==
    /\ q.from # Malformed /\ q.to # Malformed
    /\ q.from # Absent /\ q.to # Absent => q.from <= q.to

\* parseBoundedInt, 0 as the maximum being none: what is there must be a number
\* of 1 or more and at most the maximum.
BoundedInt(v, max) == v = Absent \/ (v > 0 /\ (max = NoLimit \/ v <= max))
Limit(v, default) == IF v = Absent THEN default ELSE v

\* parsePositiveRate and parseNonNegativeRate compare what ParseFloat returns:
\* no comparison with NaN is true, so NaN is let through to the decimal.  Rates
\* in percent: the first up to 100, the second up to 5.
PositiveRate(v) == v \in {Absent, NotANumber} \/ v \in 1..100
NonNegativeRate(v) == v \in {Absent, NotANumber} \/ v \in 0..5

DailyPrices(q) ==
    RequiredSymbol(q.text) /\ DateRange(q)
    /\ (q.path = "/daily-prices" => q.choice # "unknown")

ReturnAnalysis(q) == RequiredSymbol(q.text) /\ DateRange(q) /\ q.choice # "unknown"

TechnicalIndicators(q) == RequiredSymbol(q.text) /\ DateRange(q)

ValuationRequest(q) == RequiredSymbol(q.text)

\* The rate stands for takeProfit and stopLoss, the cost for commission and
\* slippage, the number for maxHoldDays, the choice for exitMode.
Backtest(q) ==
    /\ RequiredSymbol(q.text) /\ DateRange(q) /\ BoundedInt(q.number, 250)
    /\ q.choice # "unknown" /\ PositiveRate(q.rate) /\ NonNegativeRate(q.cost)

\* decimal.NewFromFloat panics on NaN as soon as the rate is parsed, before the
\* parameters after it are looked at; the server drops the connection.
Panics(q) ==
    /\ q.path = "/backtest" /\ RequiredSymbol(q.text) /\ DateRange(q)
    /\ \/ q.rate = NotANumber
       \/ PositiveRate(q.rate) /\ BoundedInt(q.number, 250) /\ q.cost = NotANumber

\* The range of the two performance pages: the last 90 days up to the end, and
\* 366 days at most.
PerformanceRange(q) ==
    LET to == IF q.to = Absent THEN Today ELSE q.to
    IN [from |-> IF q.from = Absent THEN to - 90 ELSE q.from, to |-> to]

PerformanceAccepted(q) ==
    LET r == PerformanceRange(q)
    IN DateRange(q) /\ r.from <= r.to /\ r.to - r.from <= 366

SectorPerformance(q) == PerformanceAccepted(q) /\ q.choice # "unknown"

StockBrands(q) ==
    OptionalSymbol(q.text) /\ BoundedInt(q.number, 10000) /\ q.choice # "unknown"

\* The page number has no maximum; the number here is the limit.
AnalyzeHistories(q) ==
    OptionalSymbol(q.text) /\ BoundedInt(q.number, 1000) /\ q.choice # "unknown"

MultipleSignalStocks(q) ==
    q.from # Malformed /\ q.text # "long" /\ BoundedInt(q.number, 500)

FinStatementsRequest(q) == q.text \in {"short", "odd"} /\ BoundedInt(q.number, 20)

\* The only handler with a range that does not compare its ends.
FinAnnouncements(q) ==
    q.text # "long" /\ q.from # Malformed /\ q.to # Malformed /\ BoundedInt(q.number, 1000)

NextFinAnnouncement(q) == q.text # "absent"

StrategyRankingStocks(q) == q.choice = "known" /\ BoundedInt(q.number, 2000)

PickDates(q) == BoundedInt(q.number, 400)

\* GetQuestions and the picks of a day read an optional day.
OptionalDay(q) == q.from # Malformed

QuizChart(q) == q.from \in DayNumbers /\ q.text # "absent"

SubmitAnswer(q) == q.text # "absent" /\ q.choice = "known" /\ q.from \in DayNumbers

QuizResults(q) == q.from \in DayNumbers

ImportSBICsv(q) == q.text # "absent"

DaytradeSummary(q) == q.choice # "unknown" /\ DateRange(q)

ExecutionsByDate(q) == q.from \in DayNumbers

\* A direction other than the known ones is stored like any text; the stop
\* price, when there is one, must be a number (a choice nobody knows here).
UpsertTradeNote(q) == q.text # "absent" /\ q.from \in DayNumbers /\ q.choice # "unknown"

Accepted(q) ==
    CASE q.path \in {"/daily-prices", "/daily-prices/chart"} -> DailyPrices(q)
      [] q.path = "/return-analysis" -> ReturnAnalysis(q)
      [] q.path = "/technical-indicators" -> TechnicalIndicators(q)
      [] q.path = "/valuation" -> ValuationRequest(q)
      [] q.path = "/backtest" -> Backtest(q)
      [] q.path = "/signal-performance" -> PerformanceAccepted(q)
      [] q.path = "/sector-performance" -> SectorPerformance(q)
      [] q.path = "/stock-brands" -> StockBrands(q)
      [] q.path = "/analyze-stock-brand-price-histories" -> AnalyzeHistories(q)
      [] q.path = "/multiple-signal-stocks" -> MultipleSignalStocks(q)
      [] q.path = "/fin-statements" -> FinStatementsRequest(q)
      [] q.path = "/fin-announcements" -> FinAnnouncements(q)
      [] q.path = "/fin-announcements/next" -> NextFinAnnouncement(q)
      [] q.path = "/strategy-ranking-stocks" -> StrategyRankingStocks(q)
      [] q.path = "/daily-stock-picks/dates" -> PickDates(q)
      [] q.path \in {"/daily-stock-picks", "/quiz/questions"} -> OptionalDay(q)
      [] q.path = "/quiz/chart" -> QuizChart(q)
      [] q.path = "/quiz/answers" -> SubmitAnswer(q)
      [] q.path = "/quiz/results" -> QuizResults(q)
      [] q.path = "/daytrade/executions/import" -> ImportSBICsv(q)
      [] q.path = "/daytrade/summary" -> DaytradeSummary(q)
      [] q.path \in {"/daytrade/stats", "/daily-stock-picks/stats"} -> DateRange(q)
      [] q.path = "/daytrade/executions" -> ExecutionsByDate(q)
      [] q.path = "/daytrade/trades/note" -> UpsertTradeNote(q)

DefaultLimit(path) ==
    CASE path = "/stock-brands" -> NoLimit
      [] path = "/fin-statements" -> 8
      [] path = "/daily-stock-picks/dates" -> 90
      [] path = "/backtest" -> 20
      [] OTHER -> 100

\* What the use case is called with.
Arguments(q) ==
    [from |-> IF q.path \in {"/signal-performance", "/sector-performance"}
              THEN PerformanceRange(q).from ELSE q.from,
     to |-> IF q.path \in {"/signal-performance", "/sector-performance"}
            THEN PerformanceRange(q).to ELSE q.to,
     limit |-> Limit(q.number, DefaultLimit(q.path))]

NoReply == [status |-> 0, called |-> FALSE, with |-> [from |-> 0, to |-> 0, limit |-> 0]]
Refused == [NoReply EXCEPT !.status = 400]

Dropped == [NoReply EXCEPT !.status = -1]

\* writeError and respondJSON: the status of what the use case came back with.
Status(path, outcome) ==
    CASE outcome = "failed" -> 500
      [] outcome = "notFound" -> 404
      [] outcome = "exists" -> 409
      [] outcome = "unparsed" -> 422
      [] OTHER -> IF path = "/quiz/answers" THEN 201
                  ELSE IF path = "/daytrade/trades/note" THEN 204 ELSE 200

Outcomes(path) ==
    {"fine", "failed"}
    \cup (IF path \in {"/quiz/chart", "/quiz/answers"} THEN {"notFound"} ELSE {})
    \cup (IF path = "/quiz/answers" THEN {"exists"} ELSE {})
    \cup (IF path = "/daytrade/executions/import" THEN {"unparsed"} ELSE {})

RequestsInit == request \in Routes /\ reply = NoReply

Refuse ==
    /\ reply = NoReply /\ ~Panics(request) /\ ~Accepted(request)
    /\ reply' = Refused /\ UNCHANGED request

Drop ==
    /\ reply = NoReply /\ Panics(request)
    /\ reply' = Dropped /\ UNCHANGED request

Serve ==
    /\ reply = NoReply /\ ~Panics(request) /\ Accepted(request)
    /\ \E outcome \in Outcomes(request.path) :
         reply' = [status |-> Status(request.path, outcome), called |-> TRUE,
                   with |-> Arguments(request)]
    /\ UNCHANGED request

RequestsNext == Refuse \/ Drop \/ Serve
RequestsSpec == RequestsInit /\ [][RequestsNext]_requestVars
-----------------------------------------------------------------------------
\* No use case is called with days out of order, with more than a year of a
\* performance page, or with a limit it does not bound, whatever is left out of
\* the request and filled in by the handler; only the announcements leave the
\* order of their days to the query.  A request is dropped without an answer
\* only for a backtest rate that is not a number.
RequestsAreSound ==
    /\ reply.called =>
         LET a == reply.with
         IN /\ a.from > Malformed /\ a.to > Malformed
            /\ a.from # Absent /\ a.to # Absent /\ request.path # "/fin-announcements" =>
                 a.from <= a.to
            /\ request.path \in {"/signal-performance", "/sector-performance"} =>
                 a.from # Absent /\ a.to # Absent /\ a.to - a.from \in 0..366
            /\ request.path = "/stock-brands" \/ a.limit > 0
            /\ a.limit <= 10000
    /\ reply.status = 500 => reply.called
    /\ reply.status = -1 => request.path = "/backtest" /\ NotANumber \in {request.rate, request.cost}
=============================================================================
