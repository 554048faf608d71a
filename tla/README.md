# Formal model of stock-price-repository

TLA+ specifications of the stateful parts of this repository, the TLC runs that
check them on small instances, and TLAPS proofs of their most important
properties for every value of the constants.

## 1. The system

The program is a set of command line batches (`entrypoint/cli`, one operating
system process per command, started by cron or by hand) and a REST / gRPC server
(`entrypoint/api`, `entrypoint/grpc`).  They share one MySQL database and one
Redis, and never talk to each other directly.  There is no lock between
processes, and most batches read outside a transaction what they write in one.
The hard behaviour is therefore: batches that overlap, a batch that dies between
two database calls, data that arrives late or out of order, and rows that are
deleted or replaced while another process holds a copy.

### Inventory

| Component | State | Operations | What makes it correct | Module |
| --- | --- | --- | --- | --- |
| Daily price batch, brand master (`create_daily_stock_price.go`, `update_stock_brands.go`) | `stock_brand`, `stock_brands_daily_price` (soft-deleted with its brand), `stock_brands_daily_price_for_analyze` | five day transactions; upsert of brands by uuid, delisting by `updated_at`, deletion of prices and analysis rows | no live data of a delisted brand but through a race; the two price tables agree; listed brands are spared | `PriceStore`; `Market` as readers see it |
| Historical backfill (`create_historical_daily_stock_prices.go`) | Redis checkpoint | day loop with resume | no gap before the checkpoint | `PriceStore` |
| Analysis prices (`adjust_historical_data_for_stock_split.go`, `..._consolidation.go`) | analysis rows, applied histories | raw writes, retention, adjustment, deletion by symbol | rows older than the daily batch's look back carry every recorded action, once unless a crash | `AnalyzePrices` |
| Daily picks, creation (`create_daily_stock_picks.go`, `daily_stock_pick_screening.go`, `daily_stock_pick_score.go`) | `daily_stock_pick` | check, screen in a worker pool, score and choose, replace in a transaction, post to Slack, mark; `--force` | a published list is stable, marked rows were posted, an unmarked list is posted again; the choice is the best the limits allow | `DailyPicks`, `PickScores`, `WorkerPool` |
| Daily picks, evaluation (`evaluate_daily_stock_picks.go`) | same table | read pending rows, compute 1/3/5-bar returns, judge or void, write back | outcome, returns and `evaluated_at` agree; every pick is settled | `DailyPicks` |
| Pick statistics (`daily_stock_pick_interactor.go`, `daily_stock_pick_stats.go`) | none | lists, days, totals, score bands | groups add up, shown days stay | `PickStats`, `PickScores` |
| Chart quiz (`create_quiz_daily_universe.go`, `quiz_interactor.go`, `grade_quiz_answers.go`) | `quiz_daily_universe`, `quiz_answer` | select questions, submit, grade; questions, chart, results, statistics | questions numbered 1..N and frozen; grades sound, final and of the next trading day; statistics explain the score | `Quiz`, `QuizStats` |
| Statements and valuation (`sync_fin_statements_all_stocks.go`, `valuation_interactor.go`) | Redis checkpoint, `fin_statement` | symbol loop with resume and `max`; newest annual earnings | what was due is stored unless its request failed; the valuation is of the newest statement | `FinStatements` |
| Results announcements (`sync_fin_announcements.go`, `fin_announcement.go`) | `fin_announcement` | upsert, next date, ranges | the next date is upcoming; ranges partition the calendar | `FinCalendar` |
| Index prices (`create_nikkei_and_dji_historical_data.go`) | three index tables | fetch and upsert in one transaction, read by day | what was last fetched of each index is in its table; the Nikkei's row of a day is the one last fetched | `IndexPrices` |
| J-Quants client (`j_quants_api.go`) | none | pages of a day's prices; single replies | a part of a day is never passed on as the day | `StockApi`, `Replies` |
| Day trades (`daytrade_interactor.go`, `usecase/daytrade/`) | executions, notes | import replaces by date; notes; statistics computed on request | rows are the file's lines; notes keep their trade; all views agree | `Daytrade` |
| Strategy ranking (`strategy_ranking_interactor.go`) | Redis keys | worker pool, merge, publish | equals the sequential ranking; the pool never hangs | `WorkerPool`, `Ranking` |
| Listings (`get_*.go`) | none | cursor and numbered pages | a client that reads to the end has seen what was there all the while | `Paging` |
| Indicators, charts, strategies (`technical_indicators.go`, `strategy_signals.go`, `chart_series.go`) | none | decimal arithmetic over bars | in scale, within the bars, never looking ahead; the chart's warm-up suffices | `Indicators`, `Strategies`, `Tape` |
| Backtest (`backtest.go`) | none | one pass over the days | limits kept, one position, equity, curve and statistics of the trades | `Backtest` |
| Returns, sectors (`return_analytics.go`, `sector_performance.go`) | none | join by date, figures | drawdown, beta and sector returns agree with their definitions | `Returns`, `RangeAnalysis` |
| Signal performance (`signal_performance.go`) | none | forward returns, bands, quartiles | a return once given stays; bands partition the signals | `SignalStats` |
| REST handlers (`entrypoint/api/handler`) | none | read parameters, refuse, pass on, status | nothing out of its limits reaches a use case | `Requests` |
| gRPC server, wiring, exports (Box, mysqldump), generated queries, queries without a caller | - | - | - | not modelled (section 6) |

`PROJECT.json` lists the same parts with their sources, and the hazards of the
code at their lines.

## 2. Modules

| Module | Content |
| --- | --- |
| `Market` | Clock, listed symbols, live and soft-deleted bars; the daily batch's day transaction (`IngestDay`), the master batch (`UpdateStockBrands`) and the date queries. Shared by `DailyPicks` and `Quiz` through EXTENDS. |
| `PriceStore` | The same tables row by row: brand uuids, both price tables, the three batches step by step. `RefinesMarket` shows when `Market` is a true view of it. |
| `PickLedger` | Abstract specification: what readers of the picks may assume. |
| `DailyPicks`, `PickStats` | Both pick commands with any number of processes; implements `PickLedger` (`LedgerView` is the refinement mapping). `PickStats` adds the queries. |
| `Quiz`, `QuizStats` | Universe command, answers from the API, grading command; the queries. |
| `AnalyzePrices` | The analysis rows of one symbol under the daily batch, the two adjust commands and delisting. |
| `WorkerPool`, `Ranking` | The goroutine pool both batches use; the ranking built on it, with its Redis keys. |
| `Replies`, `StockApi`, `FinStatements`, `FinCalendar`, `IndexPrices` | What a reply of a service becomes, and the batches that store it. |
| `ExternalData` | The four of them that keep state, side by side: what was stored of the services is whole. |
| `Daytrade`, `Paging`, `Requests` | The day trading journal, the listings, the handlers. |
| `Decimals`, `Returns`, `Indicators`, `Strategies` | Pure algorithms, in fixed-point arithmetic (1 is `Unit`; a division rounds half away from zero as shopspring/decimal does). |
| `Tape`, `Backtest`, `RangeAnalysis`, `SignalStats`, `PickScores` | Machines that feed those algorithms one bar, day, signal or candidate at a time, with their reference definitions as properties. |
| `FoldProofs` | TLAPS lemmas shared by the others: folds, sums over functions and their parts, ranks, sizes and extremes of finite sets. |
| `DailyPicksProofs`, `QuizProofs`, `AnalyzePricesProofs`, `PriceStoreProofs`, `JournalProofs`, `ComponentProofs`, `FigureProofs` | TLAPS theorems: of the module they are named after (and its queries); of `Daytrade`; of `ExternalData` and its parts, `Requests`, `Paging` and `Ranking`; of `Backtest`, `PickScores`, `SignalStats` and `RangeAnalysis`. |
| `MCDailyPicks`, `MCQuiz`, `MCAnalyzePrices`, `MCPriceStore`, `MCJournal`, `MCComponents` | Constant values, symmetry sets and compositions for TLC. |

Operators named "Mutant of X" are plausible defects of X.  No specification uses
them: substituting one for X must break the property it is paired with in
`PROJECT.json`, which shows that the property depends on that code.

### Correspondence with the code

*A process is a record.*  `creator[p]`, `evaluator[e]`, `maker[p]`, `grader[g]`,
`adjuster[p]` and `daily` hold the local variables of one running command; `pc`
names the next database or Slack call.  One action is one call, or one
transaction where nothing outside can observe its inside.  The daily batch's
transaction in `AnalyzePrices` is two steps, because it reads the brands first.

*A crash and a database error are the same step* (`CreatorDies`, `EvaluatorDies`,
`MakerDies`, `GraderDies`, `DailyDies`, `AdjusterDies`): memory is lost, an open
transaction is rolled back, stored rows stay.  A failed Slack post (`SlackFails`)
may or may not have reached the channel.

*`Updates(struct)`* in gorm writes the non-NULL fields of a copy.  `Overwrite`
and `Graded` model exactly that: it is what makes stale copies dangerous.

*Prices are abstract.*  A bar is its existence.  Which candidates pass the
screening and in which order is any injective ranking (`Rankings`,
`Selections`); the sign of a return is any member of `Moves`.  Positions of bars
(1/3/5 bars later, a full window, the next trading date) are exact.

*The unique key of* `stock_brands_daily_price`: the upsert names
`(ticker_symbol, date)`, `sql/_init_sql` declares `(stock_brand_id, date)`, and
MySQL uses whichever exists.  The constant `KeyedBySymbol` covers both: under the
first, a soft-deleted bar of a relisted symbol hides the new one.

*Database transactions of `PriceStore`* follow InnoDB: a transaction reads the
snapshot of its first read and writes current rows, so it is a read step and a
commit step, and two that overlap may each miss what the other inserts.  History
variables (`raced`, `twinned`, `lost`) name the overlaps and failed writes the
properties make exceptions for.

*Figures are exact where the order of operations matters.*  Averages and ratios
are rounded at each division as in the code; `Root` is the integer root; powers
of floating point (annualisation) are left out.  Zero means "not yet known" and
an empty series means nil, as in the code.

Abstractions worth knowing: a symbol stands for its brand id in the quiz, so a
relisted symbol gets no second question on one date; dry runs change nothing and
are left out; averages of the pick statistics stand as the number of picks they
are taken over; imports of day trades are serial.

## 3. Runs

Bounds are the constants `MaxDay` (calendar days), `MaxActions` (recorded
corporate actions), `MaxFaults` (crashes and failed posts), and the sizes of the
process and symbol sets; all of them are guards of actions, so that liveness is
checked without state constraints.  Windows are scaled down with them: `WarmUp`
(120 bars in the code) and `Window` (20) to 1 or 2, `Horizons` ({1,3,5}) to {1}
or {1,2}, `Deadline` (30 days) to 1 or 2, `SearchDays` to twice that as in the
code.  `ZeroBars` and `ZeroBases` name the bars and the questions whose price is zero:
none in most runs, those of one day in `picks_live` and `quiz_batch`.  The properties
compare positions and dates, never the sizes, so that a violation needs the relations between them (a bar missing, a date passed, a copy
overtaken), which two symbols and two to four days produce.

| Run | Shows |
| --- | --- |
| `picks_races` | One creator (with and without `--force`) against one evaluator, price batch, faults: types, sound settled rows, marks only on posted brands, refinement of `PickLedger`, statistics that add up meanwhile. |
| `picks_cron` | Without `--force`: published lists are stable, a marked list is not posted again, judged returns start at the pick date, a day shown as evaluated or notified stays so. |
| `picks_live` | Liveness, with relisting, splits, zero prices and faults: with an evaluation succeeding every day every pick is settled; the latest list is eventually marked unless a newer trading date arrives. |
| `picks_ranks` (violation) | `--force` during an evaluation leaves two rows with one rank, against the column's comment "1..N". |
| `picks_retry` (violation) | An unmarked list of an older date is never posted again, against the comment on `notified_at`. |
| `quiz_final` | One grader, late bars, delisting, splits, crashes: outcome, score and close agree, a grade never changes, the statistics explain the score; liveness: an answer with a next trading date is graded. Soundness with several graders is the theorem `GradesSound`. |
| `quiz_batch` | One universe process, bars in date order over four days: orders 1..N, questions frozen, answers graded on the first trading day after, however late; a question with a base close of zero stops the grading. |
| `journal_and_overlap` | Two tables of rows that share no state, see below. Analysis prices: one adjusting process overlapping everything else, with a crash: no action applied to a row more often than once plus once per crash. Day trades: `JournalIsExact` through imports and notes in any order. |
| `analyze_crash` (violation) | A crash between upsert and history row: the retry adjusts again. |
| `price_store` | Two master batches, the daily batch, the backfill, one fault: one live row per symbol unless master transactions overlapped; live bars of a deleted brand only from a race; no gap before what the checkpoint vouches for; the two tables agree; the master batch spares what its list names; refinement of `Market`. |
| `components` | Thirteen components that share no state, see below. |
| `clean_sweep` (violation) | A statements sweep whose key J-Quants refuses reports `errors=0` and stored nothing. |

*The run `components`.*  `MCComponents` holds thirteen components that never touch
each other's state.  The variable `subject` is chosen once and names the
component a behaviour is about; its actions run and the others stay at their
initial states, so the run explores the sum of their state spaces and never the
product.  It EXTENDS `Backtest`, `Tape`, `PickScores`, `Paging`, `Ranking`,
`SignalStats`, `AnalyzePrices`, `ExternalData`, `Requests` and `RangeAnalysis` and
checks their own properties, the very definitions the theorems speak of.
`ExternalDataIsWhole` is about the J-Quants client, indices, statements and
valuation, and announcements, `ChartsAreSound` and `NoLookAhead` about indicators
and strategies, bar by bar; then `ReturnsAreSound`, `BacktestIsExact`,
`SignalFiguresAddUp` and `ReturnsAreFinal`, `PicksAreSound`, `RankingIsSound`,
`PagesAreExact`, `RequestsAreSound`, and `AdjustedBeyondLookback` (`AnalyzePrices`
with batches that take turns, a look back and a crash).  `CleanSweep.cfg` runs
the same module for one subject.

*The run `journal_and_overlap`.*  `MCJournal` combines the journal and the
overlapping price batches in the same way.  An invariant is evaluated in the states
of every subject of its run, and those of the journal are costly: here they are few.

| Subject | Bounds | Why they are enough |
| --- | --- | --- |
| journal (`MCJournal`) | three kinds of lines, files of up to three, two imports, two notes, column limit 1 | three equal lines overflow the occurrence column; the second import replaces, keeps or detaches the first one's trades |
| feed | two pages of three kinds of rows | a page fails after another succeeded |
| indices | three moves of the three markets, three closes with null, two times of a day | the day in progress is stored, moves and then finishes; one market trades while another has a holiday or no price |
| statements | two symbols, four documents, two sweeps, one fault | the second sweep resumes behind the first symbol, that brand is listed later, an amendment turns a loss into a gain, a quarter hides the year before it from a valuation that reads one document |
| calendar | two symbols, four days, two hours of the day | an announcement is postponed, given up, or brought forward; the hours are the last before the date of UTC changes and the first after |
| chart | six bars of three shapes, windows of two or three bars | every window fills, every strategy of the four elementary ones can enter and leave; shapes include an inside bar, a falling close and a tripled volume |
| returns | four days, three prices of the symbol and two of the benchmark | days missing on either side, a fall and a recovery, a symbol that moves as its benchmark, two sectors |
| backtest | six days, three closes, hold limit two | each exit reason, a re-entry, an open position at the end |
| signals | three days, four signals of three shapes | horizons one and two become known; quartiles of four scores |
| scores | nine applicants, three picks, one per sector | ties, an empty sector, metrics on and between the points of each curve |
| ranking | two workers, four brands, two runs, a failed read and a failed write | workers wait while an error cancels; stale drill-downs of the first run |
| pages | four rows, pages of two, a change between queries | the cursor's row vanishes, a row appears before or after it |
| requests | classes of texts and boundary numbers | each comparison of a handler at, below and above its limit |
| serial | four days, a look back of one day, a split and a consolidation, one crash | a row the look back still reaches after the action, one it has left behind, one of the day itself; a crash between upsert and history |

Where a run sets `CHECK_DEADLOCK FALSE`, days, faults and requests are bounded, and
when nothing is left to do all commands have ended.  Symmetry is used in safety
runs only, over symbols or processes, which no property tells apart.

Conditions under which the passing properties hold, and which the violation
runs or the hazards show to be needed: `NotifiedWereSent` needs creators that do
not overlap; `ImplementsLedger` and `GradesAreFinal` need one evaluator and one
grader at a time; `PublishedListIsStable`, `NoResendOnceMarked` exclude
`--force`; `BaseIsPickDate` excludes relisting and late bars (a soft-deleted bar of the
pick date is skipped and the returns start at a later one); `UniverseIsFrozen` and
`OrdersAreOneToN` need a single universe process and a latest trading date on
which some main-market brand has a bar (otherwise the selection stores its
questions under an earlier date than the one it checked); `GradedOnNextDay`
needs bars in date order (a day stored after a later one is too late for answers
that have been graded); `AnswersAreGraded` needs questions whose base close is not zero
(one such question makes every grading panic); `AdjustedBeyondLookback` needs batches
that do not overlap, and promises nothing of the rows the look back still reaches:
the daily batch rewrites its last five days with raw prices, also those a split was
applied to.  `PicksAreSettled` speaks of picks whose deadline falls within the
days of the run.  In `PriceStore` the exceptions are state:
`raced`, `twinned`, `lost`.  `PagesAreExact` speaks of cursors over rows whose
symbols differ and of numbered pages over a table at rest; pages of announcements
are ordered by date alone and may repeat a row that shares its day.
`ExternalDataIsWhole` claims the close last fetched for every day of the Nikkei and,
for the two other indices, for the day in progress only: their tables key the rows by
the time of the chart, and when the day has ended, its row at the opening time leaves
the one at a later time, which is what a reader by day gets.

### Fairness

`DailyPicks!FairSpec` asks weak fairness of each command's steps and of the
clock: cron starts the commands again and again, and a started command keeps
running.  It asks nothing of prices, brands or faults; faults are bounded, which
says that Slack and the database recover.  `DailyCron` adds that an evaluation
succeeds on every calendar day before the next begins; without it a pick can
pass out of the search window (60 days) unseen.  `Quiz!FairSpec` asks weak
fairness of the graders only.

## 4. Proofs

All theorems hold for every value of the constants that the named assumptions
allow.

| Module | Theorem | Statement | Argument |
| --- | --- | --- | --- |
| `DailyPicksProofs` | `TypeCorrect` | `Spec => []TypeOK` | part of `SettledInv` |
| | `SettledSound` | `Spec => []SettledRowsAreSound`, any number of processes | `SettledInv == TypeOK /\ RowsAreSound /\ CopiesAreUndecided`: the property alone is not inductive, since a copy in an evaluator's memory could carry a settled outcome; copies are of pending rows, hence undecided with `evaluated_at` NULL, and `EvaluateSound` and `OverwriteSound` show that computing and writing back such a copy keeps a sound row sound, whatever the row has become. |
| | `NotifiedSent` | `NotifiedWereSent`, one creator | `SentInv`: in addition, what the creator has still to send plus what was sent covers the rows of its date, and a copy that is marked was sent. |
| | `PicksImplementLedger` | `Spec` implements `PickLedger!LedgerSpec`, one evaluator | `LedgerInv`: a held copy's row is still unsettled, and a list to be saved is not empty; each step then maps to `Publish`, `SettleSome` or a stutter. |
| | `MarkedIsNotResent` | `NoResendOnceMarked`, one creator, no `--force` | `StableInv`: an evaluation's copy has the rank its row still has, and no mark the row lacks; a creator that screens has a date without a list, one that posts has a row not yet marked. |
| | `PublishedStays` | `PublishedListIsStable`, one creator, no `--force` | from `StableInv`: a list is inserted only where there is none, when nothing of its date can be held. |
| | `ShownStays` | `ShownDaysAreFinal`, one creator, one evaluator, no `--force` | from `StableInv` and `LedgerInv`: a day is shown as evaluated when none of its rows is pending, and as notified when a row has a mark; neither is taken back, since a copy written back lacks no mark its row has. |
| | `JudgedFromPickDate` | `BaseIsPickDate`, any number of processes and `--force`; no relisting, no late bars | `BasedInv`: bars are of the past and a picked symbol has its bar of the pick date. Between the two reads of a creator its window gains no trading date (`WindowIsFull`), so a symbol with as many bars as the window had dates has the bar of the last one. |
| | `FiguresAddUp` | `Spec => []StatsAddUp` | the rows are finite and have one status each; the totals and the sums over the days are two ways to count them (`FoldProofs`). |
| `QuizProofs` | `QuizTypeCorrect` | `Spec => []TypeOK` | part of `GradesInv` |
| | `GradesSound` | `Spec => []GradesAreSound`, any number of graders | `GradesInv == TypeOK /\ AnswersAreSound`: every row is sound, those without an answer included, and `GradedSound` shows that a grade written over any row leaves a sound one; nothing needs to be known of what graders hold. |
| | `GradesStayFinal` | `Spec => GradesAreFinal`, one grader | `HeldAreUngraded`: the answers a grader holds are still ungraded, because only it could have graded them. |
| | `OrdersAreNumbered`, `UniverseStaysFrozen` | `OrdersAreOneToN`, `UniverseIsFrozen`, one universe process, main-market brands, no delisting | `UniverseInv`: the date a process has found stays a trading date inside its window, so the selection stores its questions under the date it has checked, which has none. |
| | `GradedNextDay` | `GradedOnNextDay`, bars in date order, no delisting, any number of graders | `DatedInv`: no bar is younger than today, and a graded row has a next trading date, which a bar of today cannot change. |
| | `StatsAreExplained` | `Spec => []StatsExplainTheScore`, any number of graders | from `GradesInv`: a graded answer has one of four outcomes, so the sum of the scores is a sum of counts, for all answers and day by day. |
| `AnalyzePricesProofs` | `AnalyzeTypeCorrect` | `Spec => []TypeOK` | by the steps |
| | `OnceUnlessCrashed` | `Spec => []OncePerCrash`, one adjusting process | `OnceInv`: rows and copies carry an action at most `faults` times, and once more when it is recorded or between the upsert and the history row; a process only works on an action that is not recorded. Without that distinction the property is not inductive: the upsert could add to a row that is at its limit. |
| | `AppliedBeyondLookback` | `AdjustedBeyondLookback`: `OneAtATime` (`Overlap = FALSE`), any look back, crashes, any number of adjusters | `SerialInv`: one batch is at work at most, and the daily one writes no day further back than its look back before the clock, hence before any recorded date (`DayIsLate`); a recorded action is in every stored row older than that, and in a row before its date at most once and once more per crash (`Applied`); one that is not recorded at most once per crash (`Untouched`); the exception is the one action in an adjuster's hands, whose copies are the very rows until it writes them. |
| `PriceStoreProofs` | `OrphansNeedARace` | `Spec => []OrphansOnlyFromRaces` | `OrphanInv`: a brand that a price job holds is gone only if it was delisted while held, because jobs read live rows only; writes reach held brands only. |
| | `TwinsNeedAnOverlap` | `Spec => []OneRowPerSymbol` | `SnapInv`: while no two master transactions have overlapped, at most one is open and its snapshot is the truth: it names the one live row of every symbol that has one. An upsert under those ids makes no second row. |
| | `ListedAreSpared` | `Spec => MasterSparesListed` | from `SnapInv`: a row taken as delisted has a symbol whose only row it is, so the list does not name it. |
| | `CheckpointLeavesNoGap` | `Spec => []BackfillIsComplete` | `GapInv`: the claim holds at three dates at once, where the last ended run stopped, before the day the running one is at, and at the checkpoint, which is never ahead of the run; the property alone is not inductive, since a crash moves the claim back to the checkpoint and an expiring key to the end of an earlier run. Soft-deleted rows, which an upsert would leave hidden, belong to deleted brands (`HiddenAreGone`). |
| | `StoreStaysWellFormed` | `Spec => []StoreIsWellFormed` | the types, and that no job is at a day after the one it started on; with `SnapInv`. |
| | `TablesMirrorEachOther` | `Spec => []AnalyzeMirrorsPrices` | `Mirrored`, on top of `TablesInv` (the invariants above): each table holds what the other does, but for the day between the two writes of a backfill, which only the rows it holds may be ahead by (`InFlight`); those have their bars. |
| | `StoreImplementsMarket` | `Spec => RefinesMarket` | seen by symbol, each step of a batch is a step of `Market` or a stutter; the parts of the map (listed, live, hidden) are compared one by one. |
| `JournalProofs` | `JournalInvHolds` | `DtSpec => []JournalInv` | `JournalInv == JournalType /\ ImportIsExact /\ ReplyCountsRows` is inductive. The ids of an import are above all there are, so its rows are new; occurrence numbers 0, 1, 2, ... are given to equal lines (`OccurrencesStored`), hence as many rows as the column can tell apart; rows of days the file does not name are kept with their lines. |
| | `JournalStaysExact` | `DtSpec => []JournalIsExact` | the rest holds in every state of `JournalInv`. A trade, day, month, year or symbol is a class of the rows, and the classes of a partition add up (`SumOfClasses`). The equity curve is the fold over the days in their order (`CurveOfDays`), its peak, trough and records are running maxima (`RunningMaxIsLargest`), its streak the length of the run that ends there (`RunLengthIsExact`): their last values are the extremes of the definitions. The first n of a falling sequence lose at least what any n do (`FirstAreLargest`). Both comparators are strict weak orders, so there is an order to find, ties included (`SortsExist`). |
| `ComponentProofs` | `SweepsAreComplete` | `FinSpec => []SweepIsComplete` of `FinStatements` | `SweepInv`: what was due of a symbol that has been reached is stored or excused, where a symbol is reached by the runs before up to their checkpoint, by the running one, or by an ended one without a limit (`Reached`); what is due can still be fetched, and its brand is in the running sweep. |
| | `ValuationsAreNewest` | `FinSpec => []ValuationIsNewest` | the documents are read in a total order; the first annual one among the limit is the newest of those. |
| | `ExternalDataStaysWhole` | `ExternalSpec => []ExternalDataIsWhole` | the four parts share no variable, so `ExternalSpec` implies the specification of each; the two theorems above, and one invariant for each other part. `ApiInv`: while pages are read, the prices are those of the pages so far (`OnePageMore`), and five-place codes stay apart when a last zero is cut (`CodesStayApart`). `IndexInv`, index by index: a table has one row for a day and a time, those of the Nikkei at the opening; no row of the day in progress is later than the chart has come, hence none later than the bar last fetched; the bars fetched last are stored. `CalendarInv`: what a sync brought is never deleted. |
| | `RequestsStaySound` | `RequestsSpec => []RequestsAreSound` | `RequestsInv`: a request has the kinds of parameters its route reads (`RoutesAreTyped`), and a reply is one of four; an answered one was accepted, and handler by handler the arguments made of it are within their limits (`DaysAreSound`, `NumbersAreBounded`). |
| | `ListingsAreWhole` | `PagingSpec => []PagesAreExact` | the pages so far are in order and hold every row up to the cursor that was there all the while; a page appended to them keeps that. |
| | `RankingsAreSequential` | `RankingSpec => []RankingIsSound` (`RankingParams`) | `PoolInv`: unless the run was cancelled, a brand given out is in the hands of one worker or in one place of its results (`NoneIsLost`, `HeldOnce`, `KeptOnce`), and no worker leaves before the channel is closed and all was given. What is stored was merged from all of them (`StoredAreExact`); while a goroutine is left, the guards of one of its steps hold (`SomeoneCanMove`). |
| `FigureProofs` | `BacktestsAreExact` | `BtSpec => []BacktestIsExact` | `BacktestInv`: the position held is within its limits and its trade's figures are those of its days; the equity is the product over the trades so far; `StatsInv` and `CurveInv` say the same of the statistics and of the curve. Rounding is bounded by `RoundedQuotient`. |
| | `BestArePicked` | `ScoreSpec => []PicksAreSound` | `PassedInv`: the candidates passed are finitely many applicants of different symbols. Every curve rises and rounding is monotone, so the score is; the ranks are a bijection; the choice by folding is the greedy choice (`IsGreedy`), of which there is one; with one candidate less, the two choices differ by at most one, shown at their first difference. |
| | `GivenReturnsStay` | `SignalSpec => ReturnsAreFinal` | the bars a signal is judged by only grow at their end, by a day that passes as by a later end of the range, so a horizon once covered is read from the same place. |
| | `SummariesAddUp` | `SignalSpec => []SignalFiguresAddUp` | `SignalTypes` (finitely many typed signals): methods are disjoint, a rank lies in exactly one first band, the four quarters follow one another and the sorted list has each scored signal once; least, largest, median and rounded mean of a horizon are of the same finite set of values. |
| | `RangeFiguresAgree` | `RangeSpec => []` of four conjuncts of `ReturnsAreSound`: `DrawdownIsWorstFall`, `BenchmarkAgainstItself`, `SectorReturnsAgree`, `DrawdownBoundsRisk` | they hold of every sequence of typed days. The pass carries the highest price so far and the worst fall between any two (`WorstUpTo`, `WorstGrows`): a fall from a higher peak is deeper even when rounded (`RoundDivCompare`), so the peak is enough to keep; a rounded fall is no shallower than the rounded return between the same prices (`FallWithinReturn`), so without a drawdown no daily return is negative. |

Assumptions on the constants, which TLC evaluates, are named in the module that
declares them.  Beyond that sizes are numbers and sets finite they ask: `NoId` is no
uuid and `"none"` no symbol (`NamesAssumption`); documents belong to symbols
numbered from 1 (`DocumentsAssumption`); a J-Quants code has five places
(`QuotesAssumption`); the hours of a day are 0 to 23 (`CalendarAssumption`); requests
carry whole numbers and days (`RequestsAssumption`); each row of a listing has an id of its own
(`RowsHaveIds`); closes of a backtest are positive, its limits at least 1 and its
costs at most the whole price, which the handler ensures (`BacktestParams`); brands
and strategies of a ranking are listed once and somebody works (`RankingParams`);
the closes of an index include the null and a table keeps its rows at least a day
(`IndexAssumption`, `AnalyzeAssumption`); bars and questions without a price are
bars and questions (`ZeroBarsAssumption`, `QuizAssumption`);
prices are not negative (`RangeAssumption`) and a signal has at most one rank and one score
(`SignalAssumption`); days and results of executions are whole numbers and a client
sends a list of tags (`JournalAssumption`).

Hypotheses of single theorems: "one creator" (evaluator, grader, adjusting
process) says that the set of such processes has at most one element: one slot in
which the command runs again and again, never two at once.  `OneAtATime` says that
batches on one symbol's analysis rows do not overlap (`Overlap = FALSE`) and nothing
else: the look back and the crashes are any number.  `Relists = FALSE` and
`Lookback = 0` exclude a relisting and late bars in `JudgedFromPickDate`: a
soft-deleted bar of the pick date is skipped and the returns would start at a
later one.  `picks_cron`, `quiz_batch` and the subject "serial" run under these
hypotheses, which their cfg states.

Induction over finite sets, sequences and folds is done without the library's
theorems that take an operator: `FoldProofs` shows of a family of facts indexed by
numbers that a least counterexample does not exist (`LeastNatural`), states
a fold by what it must satisfy (`AddsUp`) and derives that the sum over a set adds
up in any order and by classes, that ranks in a strict order are places 1..n, and that
the least and the largest of a finite set exist.

Outside the prover's reach, and checked by TLC only: liveness
(`PicksAreSettled`, `LatestIsNotified`, `AnswersAreGraded`) and what recursive
functions compute (the averages of `Indicators`, hence `ChartsAreSound` and
`NoLookAhead`).  Of the safety invariants only one conjunct of `ReturnsAreSound`,
`CorrelationWithinOne`, is model-checked without being proved: that a correlation
lies between -1 and 1 up to a tenth, and that of a symbol with itself is one up to a
fiftieth, is true of the checked prices, but each variance is rounded before it
divides, and a variance near zero may be off by much of itself.
It needs an error analysis of the rounding on bounded prices, not an inductive
invariant.

## 5. Findings

1. `--force` while an evaluation holds copies of the list gives two rows one rank
   (`picks_ranks`; `daily_stock_pick.go:107`).
2. A list whose post failed is never posted once a newer trading date exists
   (`picks_retry`; `create_daily_stock_picks.go:78`).
3. Adjusted rows and their history row are written without a transaction: a crash
   between them adjusts twice (`analyze_crash`;
   `adjust_historical_data_for_stock_split.go:84`).
4. `errors.Wrap(err, ...)` of a nil `err` makes J-Quants' 401 no error: a sweep of
   the statements passes every brand and reports success (`clean_sweep`;
   `j_quants_api.go:283`, and lines 44, 89, 145).

Noticed on the way, without a run of their own.  In the first five the code and a
text of the repository disagree, and the properties are those of the code:

- *Pending answers are counted as answered.*  `models/quiz.go:161` says of `Pending`
  that it is not part of `Answered` or its denominators
  (「Answered/Score/Correctの分母には含まない」); `quiz_interactor.go:310` counts every
  answer, graded or not.  `StatsExplainTheScore` says how the counts add up in the code.
- *`symbol_from` is inclusive.*  `readme.md:271` (and 284-288, 915) says that only codes
  greater than it are returned; `stock_brand.go:118`
  and `high_volume_stock_brand.go:61` ask for `Gte`, as the comment at the former says.
  `PagesAreExact` rests on that: `next_cursor` names the first symbol of the next page, and
  a client would lose one row per page under the reading of the readme.
- *`from` of `/fin-announcements` leaves its first day out.*  `readme.md:379` calls it the
  start of the range (開始日); it is parsed as midnight UTC, nine in the morning in Tokyo,
  which is after the announcements of that day.  `RangesPartition` says what that gives.
- *The look back undoes adjustments.*  The usage of the adjust commands says that they
  adjust the past prices of a symbol that was split
  (`adjust_historical_data_for_stock_split.go:30` of the commands); the daily batch then
  writes raw prices over up to five days of them (`create_daily_stock_price.go:15`), and
  the history row keeps the command from being run again.  `AdjustedBeyondLookback` claims
  the adjustment for older rows only.
- *Equal entries of a drill-down* come in the order in which the workers took
  them (`strategy_ranking_interactor.go:260` sorts by the return alone), although
  the comment at `strategy_ranking_interactor.go:287` promises exactly the result of a
  sequential run; `RankingIsSound` asks for a descending list of the same entries.
- A question whose base close is zero panics in the division of
  `quiz_scoring.go:16`, inside the transaction over all ungraded answers: nothing is graded
  by that run or any later one (`GradePanics`).
- A sweep limited by `max` deletes its checkpoint, so the next one starts over
  (`sync_fin_statements_all_stocks.go:32`, `:66`).
- A backtest rate of `NaN` passes both comparisons and panics in `decimal.NewFromFloat`
  (`backtest_handler.go:49`; `RequestsAreSound` says it is the only request dropped).
- The DJI and TOPIX tables keep the last row of a day in progress beside the row of the
  finished day, and a reader by day gets the former (`IndicesAreCurrent`).

## 6. Not modelled

- *Queries no handler, command or use case calls*: `GetWeeklyIndexPriceChart`,
  `GetBalanceSheets`, `GetDailyPricesBySymbolAndRange`, `GetCurrentStockPrice`,
  `GetFinancialStatementsByDate`.
- *Generated code* (`gen_query`, `gen_model`, `wire_gen.go`, mocks, protobuf): the
  repositories that use it are modelled by the statement they send.
- *Exports* (`export_*`, Box, mysqldump): an external program's output is uploaded;
  nothing is read again.
- *The notification of a command's run time* and the replacement of the run's error
  by Slack's in `runner.go`: no state depends on it.
- *gRPC server, CORS, health check, configuration, dependency injection*: delegation
  and formatting without decisions.
- *Transactions that panic* (`transaction.go` has no recover) inside a process that
  goes on, as the API's would, and an unread error of Begin: a command that panics dies
  as a whole, and its open transaction with it.
- *What some bounds do not reach*: entries by Bollinger bands and triangles come on the
  last bar of the series, so that `NoLookAhead` says nothing of later bars about these
  two; `ReturnsAreFinal` appends bars and neither inserts nor rewrites any; `quiz_final`
  has one grader (several are the theorem `GradesSound`), and in `quiz_batch` no bar is
  late; a file of another layout that renames the sides of a trade detaches its note,
  which `JournalIsExact` excludes by its precondition.
- *Two day trade imports at once*: the API has one user, and the model makes
  imports atomic.
- *Annualised figures*, holding times and hours of the day of the journal: floating
  point powers and formatting.

## 7. Plan

1. Proofs: an error analysis of the rounded correlation (`CorrelationWithinOne`).
2. A composition of `PriceStore`, `DailyPicks` and `Quiz` in the documented order of
   the nightly batches.
3. Overlapping day trade imports, with the two transactions as in `PriceStore`.
