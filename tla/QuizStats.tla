----------------------------- MODULE QuizStats ------------------------------
(***************************************************************************)
(* What the API answers about the quiz: the questions of a date, the chart *)
(* of a question, the results of a date and the statistics over all        *)
(* answers, read from the tables while the commands write them.            *)
(***************************************************************************)
EXTENDS Quiz, FiniteSetsExt

\* GetQuestions: the questions of a date in their order, and which have been
\* answered; without a date those of the latest.
QuestionSet(d) ==
    [total |-> Cardinality(Questions(d)), answered |-> Cardinality(Answered(d)),
     open |-> Questions(d) \ Answered(d)]

\* GetChart: the bars of a question up to its date, and to "ahead" days after
\* it when the answer is revealed.
ChartDates(d, b, reveal, ahead) ==
    IF b \notin Questions(d) THEN {}
    ELSE {x \in bars[b] : x <= IF reveal THEN d + ahead ELSE d}

AnswersOf(dates) == {k \in dates \X Brands : k[2] \in Answered(k[1])}
AnswerOf(k) == answers[k[1]][k[2]]
OutcomeIs(K, outcome) == Cardinality({k \in K : AnswerOf(k).outcome = outcome})
ScoreOf(K) == MapThenSumSet(LAMBDA k : AnswerOf(k).score, K)

\* GetResults of one date.  "Graded" is lost again when a further question of
\* the date is answered.
Results(d) ==
    LET K == AnswersOf({d}) IN
    [graded |-> K # {} /\ \A k \in K : AnswerOf(k).outcome # "null",
     answered |-> Cardinality(K), score |-> ScoreOf(K),
     correct |-> OutcomeIs(K, "correct"), incorrect |-> OutcomeIs(K, "incorrect"),
     draw |-> OutcomeIs(K, "draw"), void |-> OutcomeIs(K, "void")]

\* Mutant of Accuracy: a draw is a miss.
AccuracyWithDraws(K) ==
    [correct |-> OutcomeIs(K, "correct"),
     decided |-> OutcomeIs(K, "correct") + OutcomeIs(K, "incorrect") + OutcomeIs(K, "draw")]

\* Draws and void answers decide nothing.
Accuracy(K) ==
    [correct |-> OutcomeIs(K, "correct"),
     decided |-> OutcomeIs(K, "correct") + OutcomeIs(K, "incorrect")]

OfConfidence(strong) ==
    {k \in AnswersOf(Days) : IsStrong(AnswerOf(k).prediction) = strong}

\* GetStats over all answers.  The answers given include those not graded yet,
\* in total and on each day (acc.answered and TotalAnswered are counted before
\* the outcome is looked at), which the comment on QuizDailyScore.Pending denies.
Stats ==
    LET all == AnswersOf(Days) IN
    [score |-> ScoreOf(all), answered |-> Cardinality(all),
     accuracy |-> Accuracy(all),
     normal |-> Accuracy(OfConfidence(FALSE)), strong |-> Accuracy(OfConfidence(TRUE)),
     daily |-> [d \in {k[1] : k \in all} |->
        [answered |-> Results(d).answered, correct |-> Results(d).correct,
         score |-> Results(d).score, pending |-> OutcomeIs(AnswersOf({d}), "null")]]]

-----------------------------------------------------------------------------
\* The total score is explained by the hits and misses of the two levels of
\* confidence, one point each or two, and by the days, whatever mixture of
\* graded, void and open answers is stored; a graded date has nothing pending,
\* and the answers of a day, as GetStats counts them, are those GetQuestions
\* shows as answered, the pending ones among them, against the comment at
\* models/quiz.go:161.
StatsExplainTheScore ==
    LET s == Stats
        Net(acc) == acc.correct - (acc.decided - acc.correct)
    IN  /\ s.score = Net(s.normal) + 2 * Net(s.strong)
        /\ s.score = MapThenSumSet(LAMBDA d : s.daily[d].score, DOMAIN s.daily)
        /\ s.accuracy.decided = s.normal.decided + s.strong.decided
        /\ \A d \in DOMAIN s.daily :
            /\ Results(d).graded <=> s.daily[d].pending = 0
            /\ QuestionSet(d).answered = s.daily[d].answered
=============================================================================
