-------------------------------- MODULE Quiz --------------------------------
(***************************************************************************)
(* The chart quiz: create_quiz_daily_universe_v1 stores the questions of   *)
(* the latest trading day, the REST API stores one answer per question,    *)
(* and grade_quiz_answers_v1 grades the answers against the close of the   *)
(* next trading day.  The commands are separate processes, the API serves  *)
(* requests meanwhile, and prices arrive at any time.                      *)
(***************************************************************************)
EXTENDS Market

CONSTANTS
    Main,        \* the symbols of the main markets, a subset of Brands
    Makers,      \* processes running create_quiz_daily_universe_v1
    Graders,     \* processes running grade_quiz_answers_v1
    Predictions, \* the answers in use
    Window,      \* quizUniverseWindowDays, 20
    RangeTopN,   \* QuizUniverseRangeTopN, 300
    Moves,       \* signs of the next day's return
    ZeroBases,   \* the <<symbol, quiz_date>> whose base_close_price is zero
    Relists,     \* TRUE: the brand master batch runs too
    MaxActions,  \* bound: recorded splits and consolidations in a run
    MaxFaults    \* bound: crashes and database errors in a run

QuizPredictions == {"strong_down", "down", "up", "strong_up"}
IsUp(prediction) == prediction \in {"up", "strong_up"}
IsStrong(prediction) == prediction \in {"strong_down", "strong_up"}

ASSUME QuizAssumption ==
    /\ Main \subseteq Brands
    /\ Predictions \subseteq QuizPredictions
    /\ Window \in Nat \ {0}
    /\ RangeTopN \in Nat \ {0}
    /\ Moves \subseteq {-1, 0, 1}
    /\ ZeroBases \subseteq Brands \X Days
    /\ Relists \in BOOLEAN
    /\ MaxActions \in Nat
    /\ MaxFaults \in Nat

\* One row of quiz_answer.  priced: next_close_price is not NULL; on is
\* history: the trading date the row was graded against.
Answers == [prediction : QuizPredictions \cup {"none"},
            outcome : {"null", "correct", "incorrect", "draw", "void"},
            score : -2 .. 2, priced : BOOLEAN, on : SUBSET Days]

FreshAnswer(prediction) ==
    [prediction |-> prediction, outcome |-> "null", score |-> 0,
     priced |-> FALSE, on |-> {}]

NoAnswer == FreshAnswer("none")

VARIABLES
    universe,  \* quiz_date -> symbol -> question_order, 0 for no question
    answers,   \* quiz_date -> symbol -> row
    acted,     \* applied split / consolidation histories: {<<symbol, date>>}
    maker,     \* what each universe process holds in memory
    grader,    \* what each grading process holds in memory
    faults     \* crashes and database errors so far

quizVars == <<universe, answers, acted, maker, grader, faults>>
vars == <<today, listed, bars, dead, universe, answers, acted, maker, grader,
          faults>>

NoOrders == [b \in Brands |-> 0]
NothingHeld == [d \in Days |-> {}]
IdleMaker == [pc |-> "idle", date |-> 0, from |-> 0, orders |-> NoOrders]
IdleGrader == [pc |-> "idle", held |-> NothingHeld]

TypeOK ==
    /\ MarketTypeOK
    /\ universe \in [Days -> [Brands -> Nat]]
    /\ answers \in [Days -> [Brands -> Answers]]
    /\ acted \in SUBSET (Brands \X Days)
    /\ maker \in [Makers ->
           [pc : {"idle", "exists", "select", "insert"}, date : Days,
            from : Days, orders : [Brands -> Nat]]]
    /\ grader \in [Graders ->
           [pc : {"idle", "grade"}, held : [Days -> SUBSET Brands]]]
    /\ faults \in 0 .. MaxFaults

Init ==
    /\ MarketInit
    /\ universe = [d \in Days |-> NoOrders]
    /\ answers = [d \in Days |-> [b \in Brands |-> NoAnswer]]
    /\ acted = {}
    /\ maker = [p \in Makers |-> IdleMaker]
    /\ grader = [g \in Graders |-> IdleGrader]
    /\ faults = 0

Questions(d) == {b \in Brands : universe[d][b] > 0}
Answered(d) == {b \in Brands : answers[d][b].prediction # "none"}

\* Mutant of Ungraded: the filter outcome IS NULL is forgotten.
UngradedForgetsNull(d) == Answered(d)

Ungraded(d) == {b \in Answered(d) : answers[d][b].outcome = "null"}

-----------------------------------------------------------------------------
(* create_quiz_daily_universe_v1 *)

\* ListRecentTradingDates.  With fewer than Window dates no quiz is made.
BeginUniverse(p) ==
    /\ maker[p].pc = "idle"
    /\ Cardinality(TradingDates) >= Window
    /\ \E date \in TradingDates, from \in RecentDates(Window) :
        /\ IsLatest(date)
        /\ \A x \in RecentDates(Window) : from <= x
        /\ maker' = [maker EXCEPT ![p] =
               [IdleMaker EXCEPT !.pc = "exists", !.date = date, !.from = from]]
    /\ UNCHANGED <<marketVars, universe, answers, acted, grader, faults>>

\* Mutant of CheckUniverse: the questions are made without looking first.
SkipExists(p) ==
    /\ maker[p].pc = "exists"
    /\ maker' = [maker EXCEPT ![p].pc = "select"]
    /\ UNCHANGED <<marketVars, universe, answers, acted, grader, faults>>

\* ExistsByQuizDate: the questions of a date are made once.
CheckUniverse(p) ==
    /\ maker[p].pc = "exists"
    /\ maker' = [maker EXCEPT ![p] =
           IF Questions(@.date) # {} THEN IdleMaker
           ELSE [@ EXCEPT !.pc = "select"]]
    /\ UNCHANGED <<marketVars, universe, answers, acted, grader, faults>>

\* The bars that count: those of listed main-market brands, in the window.
WindowBars(b, c) ==
    IF b \in Main \cap listed THEN bars[b] \cap (c.from .. c.date) ELSE {}

WindowDates(c) == UNION {WindowBars(b, c) : b \in Brands}

\* SelectQuizUniverse: only brands with a bar on every date of the window are
\* candidates; volumes and ranges decide which of them, and their order.
FullBrands(c) ==
    {b \in Brands : WindowBars(b, c) # {} /\ WindowBars(b, c) = WindowDates(c)}

\* Mutant of Selections: question orders start at 2.
SelectionsFromTwo(C) ==
    {r \in [Brands -> {0} \cup 2 .. Cardinality(C) + 1] :
        LET S == {b \in Brands : r[b] > 0} IN
        /\ S \subseteq C
        /\ S = C \/ Cardinality(S) = RangeTopN
        /\ Cardinality(S) <= RangeTopN
        /\ {r[b] : b \in S} = 2 .. Cardinality(S) + 1}

\* Every candidate is taken, up to RangeTopN.
Selections(C) ==
    {r \in [Brands -> 0 .. Cardinality(C)] :
        LET S == {b \in Brands : r[b] > 0} IN
        /\ S \subseteq C
        /\ S = C \/ Cardinality(S) = RangeTopN
        /\ Cardinality(S) <= RangeTopN
        /\ {r[b] : b \in S} = 1 .. Cardinality(S)}

\* The entries carry the latest date among the bars that count, which is not
\* always the date that was checked.
SelectUniverse(p) ==
    LET c == maker[p] IN
    /\ c.pc = "select"
    /\ \E r \in Selections(FullBrands(c)) :
        IF r = NoOrders
        THEN maker' = [maker EXCEPT ![p] = IdleMaker]
        ELSE \E date \in WindowDates(c) :
                /\ \A x \in WindowDates(c) : x <= date
                /\ maker' = [maker EXCEPT ![p].pc = "insert",
                                          ![p].date = date,
                                          ![p].orders = r]
    /\ UNCHANGED <<marketVars, universe, answers, acted, grader, faults>>

\* BulkCreate: one statement, refused as a whole when some key exists.
InsertUniverse(p) ==
    LET c == maker[p] IN
    /\ c.pc = "insert"
    /\ universe' =
          IF \E b \in Questions(c.date) : c.orders[b] > 0
          THEN universe
          ELSE [universe EXCEPT ![c.date] =
                   [b \in Brands |-> IF c.orders[b] > 0 THEN c.orders[b] ELSE @[b]]]
    /\ maker' = [maker EXCEPT ![p] = IdleMaker]
    /\ UNCHANGED <<marketVars, answers, acted, grader, faults>>

MakerDies(p) ==
    /\ maker[p].pc # "idle" /\ faults < MaxFaults
    /\ maker' = [maker EXCEPT ![p] = IdleMaker]
    /\ faults' = faults + 1
    /\ UNCHANGED <<marketVars, universe, answers, acted, grader>>

-----------------------------------------------------------------------------
(* The REST API *)

\* Create with a unique key on (quiz_date, stock_brand_id): a second answer is
\* refused with ErrQuizAnswerAlreadyExists and changes nothing.  Questions are
\* never deleted, so that the entry read before is still there.
SubmitAnswer(d, b, prediction) ==
    /\ b \in Questions(d) \ Answered(d)
    /\ answers' = [answers EXCEPT ![d][b] = FreshAnswer(prediction)]
    /\ UNCHANGED <<marketVars, universe, acted, maker, grader, faults>>

-----------------------------------------------------------------------------
(* grade_quiz_answers_v1 *)

\* Mutant of BeginGrade: only answers of the latest date are graded.
BeginGradeLatest(g) ==
    /\ grader[g].pc = "idle"
    /\ \E d \in Days : Ungraded(d) # {}
    /\ grader' = [grader EXCEPT ![g] =
           [pc |-> "grade",
            held |-> [d \in Days |-> IF IsLatest(d) THEN Ungraded(d) ELSE {}]]]
    /\ UNCHANGED <<marketVars, universe, answers, acted, maker, faults>>

\* ListUngraded, before the transaction begins.
BeginGrade(g) ==
    /\ grader[g].pc = "idle"
    /\ \E d \in Days : Ungraded(d) # {}
    /\ grader' = [grader EXCEPT ![g] =
           [pc |-> "grade", held |-> [d \in Days |-> Ungraded(d)]]]
    /\ UNCHANGED <<marketVars, universe, answers, acted, maker, faults>>

\* Mutant of NextDates: the last trading date instead of the next one.
LastDates(d) == {x \in TradingDates : x > d /\ IsLatest(x)}

\* FindNextTradingDate, as a set of at most one date.
NextDates(d) ==
    {x \in TradingDates : x > d /\ \A y \in TradingDates : y > d => x <= y}

\* Mutant of Grade: a strong prediction scores three.
GradeTriple(prediction, move) ==
    IF move = 0 THEN [outcome |-> "draw", score |-> 0]
    ELSE LET correct == IsUp(prediction) <=> move > 0
             stake == IF IsStrong(prediction) THEN 3 ELSE 1
         IN  IF correct THEN [outcome |-> "correct", score |-> stake]
             ELSE [outcome |-> "incorrect", score |-> -stake]

\* Mutant of Grade: a miss keeps its sign.
GradeUnsigned(prediction, move) ==
    IF move = 0 THEN [outcome |-> "draw", score |-> 0]
    ELSE LET correct == IsUp(prediction) <=> move > 0
             stake == IF IsStrong(prediction) THEN 2 ELSE 1
         IN  IF correct THEN [outcome |-> "correct", score |-> stake]
             ELSE [outcome |-> "incorrect", score |-> stake]

\* GradeQuizAnswer, for the sign of the actual return.
Grade(prediction, move) ==
    IF move = 0 THEN [outcome |-> "draw", score |-> 0]
    ELSE LET correct == IsUp(prediction) <=> move > 0
             stake == IF IsStrong(prediction) THEN 2 ELSE 1
         IN  IF correct THEN [outcome |-> "correct", score |-> stake]
             ELSE [outcome |-> "incorrect", score |-> -stake]

\* A missing bar and a corporate action on the next date void the answer.
IsVoid(d, b) ==
    \A x \in NextDates(d) : x \notin bars[b] \/ <<b, x>> \in acted

\* UpdateGrading writes by id, whatever the row has become; next_close_price
\* is only ever filled in.
Graded(a, d, b, move) ==
    IF IsVoid(d, b)
    THEN [a EXCEPT !.outcome = "void", !.score = 0, !.on = NextDates(d)]
    ELSE LET result == Grade(a.prediction, move) IN
         [a EXCEPT !.outcome = result.outcome, !.score = result.score,
                   !.priced = TRUE, !.on = NextDates(d)]

\* The answers a run looks at: dates without a next trading date and answers
\* without a question are left for the next run.
Gradable(g, d) ==
    IF NextDates(d) = {} THEN {} ELSE grader[g].held[d] \cap Questions(d)

\* The return of an answer that is not void is divided by its base close.
DividesByZero(g) ==
    \E d \in Days : \E b \in Gradable(g, d) :
        ~IsVoid(d, b) /\ <<b, d>> \in ZeroBases

\* The transaction over all answers read before.
CommitGrade(g) ==
    /\ grader[g].pc = "grade" /\ ~DividesByZero(g)
    /\ \E move \in [Brands -> Moves] :
        answers' = [d \in Days |-> [b \in Brands |->
            IF b \in Gradable(g, d)
            THEN Graded(answers[d][b], d, b, move[b])
            ELSE answers[d][b]]]
    /\ grader' = [grader EXCEPT ![g] = IdleGrader]
    /\ UNCHANGED <<marketVars, universe, acted, maker, faults>>

\* The decimal division panics: the transaction is rolled back with the grades
\* of all other answers, and every later run ends likewise.
GradePanics(g) ==
    /\ grader[g].pc = "grade" /\ DividesByZero(g)
    /\ grader' = [grader EXCEPT ![g] = IdleGrader]
    /\ UNCHANGED <<marketVars, universe, answers, acted, maker, faults>>

GraderDies(g) ==
    /\ grader[g].pc # "idle" /\ faults < MaxFaults
    /\ grader' = [grader EXCEPT ![g] = IdleGrader]
    /\ faults' = faults + 1
    /\ UNCHANGED <<marketVars, universe, answers, acted, maker>>

-----------------------------------------------------------------------------
(* The other batches, and the clock *)

RecordCorporateAction(b, d) ==
    /\ d <= today /\ Cardinality(acted) < MaxActions
    /\ acted' = acted \cup {<<b, d>>}
    /\ UNCHANGED <<marketVars, universe, answers, maker, grader, faults>>

MarketChanges ==
    /\ Ingestion \/ (Relists /\ Relisting) \/ NextDay
    /\ UNCHANGED quizVars

Grading(g) == BeginGrade(g) \/ CommitGrade(g) \/ GradePanics(g)

MakeUniverse(p) ==
    BeginUniverse(p) \/ CheckUniverse(p) \/ SelectUniverse(p) \/ InsertUniverse(p)

Next ==
    \/ \E p \in Makers : MakeUniverse(p) \/ MakerDies(p)
    \/ \E d \in Days, b \in Brands, prediction \in Predictions :
           SubmitAnswer(d, b, prediction)
    \/ \E g \in Graders : Grading(g) \/ GraderDies(g)
    \/ \E b \in Brands, d \in Days : RecordCorporateAction(b, d)
    \/ MarketChanges

Spec == Init /\ [][Next]_vars

\* cron starts the grading again and again, and a started run keeps running.
FairSpec ==
    /\ Spec
    /\ \A g \in Graders : WF_vars(Grading(g))

-----------------------------------------------------------------------------
(* Properties *)

\* Safety, for any number of graders.  Outcome, score and next close of a
\* graded answer belong together: the score is what the prediction earns for
\* the outcome, although rows are written field by field over grades another
\* run may have stored since they were read.
GradesAreSound ==
    \A d \in Days : \A b \in Answered(d) :
        LET a == answers[d][b] IN
        /\ a.outcome \in {"correct", "incorrect", "draw"} => a.priced
        /\ a.score = CASE a.outcome = "correct" -> IF IsStrong(a.prediction) THEN 2 ELSE 1
                       [] a.outcome = "incorrect" -> IF IsStrong(a.prediction) THEN -2 ELSE -1
                       [] OTHER -> 0

\* Safety, with one grader at a time.  A grade is final: prices, splits and
\* delistings that arrive later never change a stored outcome or score.
GradesAreFinal ==
    [][\A d \in Days : \A b \in Answered(d) :
          answers[d][b].outcome # "null" => answers'[d][b] = answers[d][b]]_vars

\* Safety, with one maker, only main-market brands and no delisting.  The
\* questions of a date are numbered 1..N without gaps or repetitions, although
\* the date is checked in one query, computed in another and stored in a third.
OrdersAreOneToN ==
    \A d \in Days :
        {universe[d][b] : b \in Questions(d)} = 1 .. Cardinality(Questions(d))

\* The comment of CreateQuizDailyUniverse calls it idempotent: questions that
\* exist already are left as they are.
UniverseIsFrozen ==
    [][\A d \in Days : Questions(d) # {} => universe'[d] = universe[d]]_vars

\* Safety, when bars arrive in date order and are never deleted.  An answer is
\* graded against the first trading day after its quiz date, as readers will
\* always see it.
GradedOnNextDay ==
    \A d \in Days : \A b \in Answered(d) :
        answers[d][b].outcome # "null" => answers[d][b].on = NextDates(d)

\* Liveness, when the grading command is run again and again and no question
\* has a zero base close.  An answer with a next trading date is eventually
\* graded (or the date's bars are deleted).
AnswersAreGraded ==
    \A d \in Days, b \in Brands :
        (b \in Ungraded(d) /\ NextDates(d) # {})
            ~> (b \notin Ungraded(d) \/ NextDates(d) = {})
=============================================================================
