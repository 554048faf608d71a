----------------------------- MODULE QuizProofs -----------------------------
(***************************************************************************)
(* Proofs about Quiz, for every number of symbols, days and processes and  *)
(* whatever the bounds.                                                    *)
(***************************************************************************)
EXTENDS QuizStats, FoldProofs

-----------------------------------------------------------------------------
(* Lemmas about the price table *)

\* The bars of a range query are finitely many dates.
LEMMA PricesAreFinite ==
    ASSUME NEW P, P \subseteq Days
    PROVE  IsFiniteSet(P) /\ Cardinality(P) \in Nat
  <1>1. IsFiniteSet(Days)
    BY MaxDayAssumption, FS_Interval DEF Days
  <1>2. IsFiniteSet(P)
    BY <1>1, FS_Subset
  <1>3. QED
    BY <1>2, FS_CardinalityType

\* Symbols are finitely many, too.
LEMMA SymbolsAreFinite ==
    ASSUME NEW S, S \subseteq Brands
    PROVE  IsFiniteSet(S) /\ Cardinality(S) \in Nat
  <1>1. IsFiniteSet(S)
    BY BrandsAssumption, FS_Subset
  <1>2. QED
    BY <1>1, FS_CardinalityType

LEMMA MarketTypeInit == MarketInit => MarketTypeOK
  BY MaxDayAssumption DEF MarketInit, MarketTypeOK, Days

\* The three writers of the market keep its types.
LEMMA MarketTypePreserved ==
    ASSUME MarketTypeOK, Ingestion \/ Relisting \/ NextDay
    PROVE  MarketTypeOK'
  <1>1. CASE Ingestion
    <2>1. PICK d \in Days, S \in SUBSET Brands : IngestDay(d, S)
      BY <1>1 DEF Ingestion
    <2>2. QED
      BY <2>1 DEF IngestDay, MarketTypeOK
  <1>2. CASE Relisting
    <2>1. PICK L \in SUBSET Brands : UpdateStockBrands(L)
      BY <1>2 DEF Relisting
    <2>2. QED
      BY <2>1 DEF UpdateStockBrands, MarketTypeOK
  <1>3. CASE NextDay
    BY <1>3, MaxDayAssumption DEF NextDay, MarketTypeOK, Days
  <1>4. QED
    BY <1>1, <1>2, <1>3

\* A date that some bar makes a trading date is a day of the calendar.
LEMMA TradingDatesAreDays ==
    ASSUME MarketTypeOK
    PROVE  TradingDates \subseteq Days
  BY DEF MarketTypeOK, TradingDates

-----------------------------------------------------------------------------
(* Lemmas about the operators *)

MakerMemory ==
    [pc : {"idle", "exists", "select", "insert"}, date : Days, from : Days,
     orders : [Brands -> Nat]]
GraderMemory == [pc : {"idle", "grade"}, held : [Days -> SUBSET Brands]]

\* What a graded answer must look like.
SoundAnswer(a) ==
    /\ a.outcome \in {"correct", "incorrect", "draw"} => a.priced
    /\ a.score = CASE a.outcome = "correct" -> IF IsStrong(a.prediction) THEN 2 ELSE 1
                   [] a.outcome = "incorrect" -> IF IsStrong(a.prediction) THEN -2 ELSE -1
                   [] OTHER -> 0

LEMMA FreshAnswerSound ==
    ASSUME NEW prediction \in QuizPredictions \cup {"none"}
    PROVE  FreshAnswer(prediction) \in Answers /\ SoundAnswer(FreshAnswer(prediction))
  BY DEF FreshAnswer, Answers, SoundAnswer

LEMMA IdleTypes ==
    /\ IdleMaker \in MakerMemory
    /\ IdleGrader \in GraderMemory
    /\ NoOrders \in [Brands -> Nat]
    /\ NoAnswer \in Answers /\ SoundAnswer(NoAnswer)
  <1>1. 0 \in Days
    BY MaxDayAssumption DEF Days
  <1>2. NoOrders \in [Brands -> Nat]
    BY DEF NoOrders
  <1>3. IdleMaker \in MakerMemory
    BY <1>1, <1>2 DEF IdleMaker, MakerMemory
  <1>4. IdleGrader \in GraderMemory
    BY DEF IdleGrader, GraderMemory, NothingHeld
  <1>5. QED
    BY <1>2, <1>3, <1>4, FreshAnswerSound DEF NoAnswer

\* A selection numbers its questions with naturals.
LEMMA SelectionType ==
    ASSUME NEW C, C \subseteq Brands, NEW r \in Selections(C)
    PROVE  r \in [Brands -> Nat]
  <1>1. Cardinality(C) \in Nat
    BY SymbolsAreFinite
  <1>2. 0 .. Cardinality(C) \subseteq Nat
    BY <1>1
  <1>3. QED
    BY <1>2 DEF Selections

LEMMA NextDatesAreDays ==
    ASSUME MarketTypeOK, NEW d \in Days
    PROVE  NextDates(d) \subseteq Days
  BY TradingDatesAreDays DEF NextDates

\* Grading sets outcome, score and close together, whatever the row held.
LEMMA GradedSound ==
    ASSUME MarketTypeOK, NEW a \in Answers, SoundAnswer(a),
           NEW d \in Days, NEW b \in Brands, NEW move \in Moves
    PROVE  Graded(a, d, b, move) \in Answers /\ SoundAnswer(Graded(a, d, b, move))
  <1> DEFINE D == NextDates(d)
             g == Graded(a, d, b, move)
             result == Grade(a.prediction, move)
  <1>1. D \subseteq Days
    BY NextDatesAreDays
  <1> HIDE DEF D
  <1>2. CASE IsVoid(d, b)
    <2>1. g = [a EXCEPT !.outcome = "void", !.score = 0, !.on = D]
      BY <1>2 DEF Graded, D
    <2> HIDE DEF g
    <2>2. g \in Answers
      <3> DEFINE zero == 0
      <3>1. zero \in -2 .. 2
        OBVIOUS
      <3>2. g = [a EXCEPT !.outcome = "void", !.score = zero, !.on = D]
        BY <2>1
      <3> HIDE DEF zero
      <3>3. QED
        BY <1>1, <3>1, <3>2 DEF Answers
    <2>3. g.outcome = "void" /\ g.score = 0
      BY <2>1 DEF Answers
    <2>4. QED
      BY <2>2, <2>3 DEF SoundAnswer, g
  <1>3. CASE ~IsVoid(d, b)
    <2>1. g = [a EXCEPT !.outcome = result.outcome, !.score = result.score,
                        !.priced = TRUE, !.on = D]
      BY <1>3 DEF Graded, D
    <2>2. /\ result.outcome \in {"correct", "incorrect", "draw"}
          /\ result.score \in -2 .. 2
          /\ result.score = CASE result.outcome = "correct" ->
                                     IF IsStrong(a.prediction) THEN 2 ELSE 1
                              [] result.outcome = "incorrect" ->
                                     IF IsStrong(a.prediction) THEN -2 ELSE -1
                              [] OTHER -> 0
      BY DEF Grade
    <2> HIDE DEF result
    <2>3. g \in Answers
      BY <1>1, <2>1, <2>2 DEF Answers
    <2>4. g.outcome = result.outcome /\ g.score = result.score
          /\ g.priced /\ g.prediction = a.prediction
      BY <2>1 DEF Answers
    <2>5. QED
      BY <2>2, <2>3, <2>4 DEF SoundAnswer
  <1>4. QED
    BY <1>2, <1>3

-----------------------------------------------------------------------------
(* Type correctness, and the soundness of grades *)

AnswersAreSound == \A d \in Days, b \in Brands : SoundAnswer(answers[d][b])

\* The inductive invariant: every row is sound, those without an answer
\* included.  Nothing needs to be known of what graders hold.
GradesInv == TypeOK /\ AnswersAreSound

LEMMA GradesInit == Init => GradesInv
  <1> SUFFICES ASSUME Init PROVE GradesInv
    OBVIOUS
  <1>1. MarketTypeOK
    BY MarketTypeInit DEF Init
  <1>2. /\ universe \in [Days -> [Brands -> Nat]]
        /\ answers \in [Days -> [Brands -> Answers]]
        /\ maker \in [Makers -> MakerMemory]
        /\ grader \in [Graders -> GraderMemory]
        /\ acted \in SUBSET (Brands \X Days)
    BY IdleTypes DEF Init
  <1>3. faults \in 0 .. MaxFaults
    BY QuizAssumption DEF Init
  <1>4. AnswersAreSound
    BY IdleTypes DEF Init, AnswersAreSound
  <1>5. QED
    BY <1>1, <1>2, <1>3, <1>4 DEF GradesInv, TypeOK, MakerMemory, GraderMemory

\* A step of a universe process.
LEMMA MakerStepInv ==
    ASSUME GradesInv, NEW p \in Makers, NEW c \in MakerMemory,
           maker' = [maker EXCEPT ![p] = c],
           universe' \in [Days -> [Brands -> Nat]], faults' \in 0 .. MaxFaults,
           UNCHANGED <<marketVars, answers, acted, grader>>
    PROVE  GradesInv'
  BY DEF GradesInv, TypeOK, MarketTypeOK, marketVars, MakerMemory, AnswersAreSound

LEMMA MakerKeepsInv ==
    ASSUME GradesInv, NEW p \in Makers, MakeUniverse(p) \/ MakerDies(p)
    PROVE  GradesInv'
  <1> DEFINE c == maker[p]
  <1>1. /\ MarketTypeOK
        /\ maker \in [Makers -> MakerMemory]
        /\ c \in MakerMemory
        /\ universe \in [Days -> [Brands -> Nat]]
        /\ faults \in 0 .. MaxFaults
        /\ TradingDates \subseteq Days
    BY TradingDatesAreDays DEF GradesInv, TypeOK, MakerMemory
  <1>2. CASE BeginUniverse(p)
    <2>1. PICK date \in TradingDates, from \in RecentDates(Window) :
              maker' = [maker EXCEPT ![p] =
                  [IdleMaker EXCEPT !.pc = "exists", !.date = date, !.from = from]]
      BY <1>2 DEF BeginUniverse
    <2>2. date \in Days /\ from \in Days
      BY <1>1 DEF RecentDates
    <2>3. [IdleMaker EXCEPT !.pc = "exists", !.date = date, !.from = from]
              \in MakerMemory
      BY <2>2, IdleTypes DEF MakerMemory
    <2>4. QED
      BY <1>1, <1>2, <2>1, <2>3, MakerStepInv DEF BeginUniverse
  <1>3. CASE CheckUniverse(p)
    <2>1. PICK m \in MakerMemory : maker' = [maker EXCEPT ![p] = m]
      <3>1. [c EXCEPT !.pc = "select"] \in MakerMemory
        BY <1>1 DEF MakerMemory
      <3>2. QED
        BY <1>1, <1>3, <3>1, IdleTypes DEF CheckUniverse
    <2>2. QED
      BY <1>1, <1>3, <2>1, MakerStepInv DEF CheckUniverse
  <1>4. CASE SelectUniverse(p)
    <2>1. FullBrands(c) \subseteq Brands
      BY DEF FullBrands
    <2>2. WindowDates(c) \subseteq Days
      BY <1>1 DEF WindowDates, WindowBars, MarketTypeOK
    <2>3. PICK r \in Selections(FullBrands(c)) :
              IF r = NoOrders
              THEN maker' = [maker EXCEPT ![p] = IdleMaker]
              ELSE \E date \in WindowDates(c) :
                      maker' = [maker EXCEPT ![p].pc = "insert",
                                             ![p].date = date,
                                             ![p].orders = r]
      BY <1>4 DEF SelectUniverse
    <2>4. r \in [Brands -> Nat]
      BY <2>1, <2>3, SelectionType
    <2>5. PICK m \in MakerMemory : maker' = [maker EXCEPT ![p] = m]
      <3>1. CASE r = NoOrders
        BY <2>3, <3>1, IdleTypes
      <3>2. CASE r # NoOrders
        <4>1. PICK date \in WindowDates(c) :
                  maker' = [maker EXCEPT ![p].pc = "insert", ![p].date = date,
                                         ![p].orders = r]
          BY <2>3, <3>2
        <4>2. [c EXCEPT !.pc = "insert", !.date = date, !.orders = r] \in MakerMemory
          BY <1>1, <2>2, <2>4 DEF MakerMemory
        <4>3. maker' = [maker EXCEPT ![p] =
                  [c EXCEPT !.pc = "insert", !.date = date, !.orders = r]]
          BY <1>1, <4>1 DEF MakerMemory
        <4>4. QED
          BY <4>2, <4>3
      <3>3. QED
        BY <3>1, <3>2
    <2>6. QED
      BY <1>1, <1>4, <2>5, MakerStepInv DEF SelectUniverse
  <1>5. CASE InsertUniverse(p)
    <2>1. c.orders \in [Brands -> Nat]
      BY <1>1 DEF MakerMemory
    <2>2. universe' \in [Days -> [Brands -> Nat]]
      BY <1>1, <1>5, <2>1 DEF InsertUniverse
    <2>3. QED
      BY <1>1, <1>5, <2>2, IdleTypes, MakerStepInv DEF InsertUniverse
  <1>6. CASE MakerDies(p)
    <2>1. faults' \in 0 .. MaxFaults
      BY <1>1, <1>6, QuizAssumption DEF MakerDies
    <2>2. QED
      BY <1>1, <1>6, <2>1, IdleTypes, MakerStepInv DEF MakerDies
  <1>7. QED
    BY <1>2, <1>3, <1>4, <1>5, <1>6 DEF MakeUniverse

\* A step that writes answers, each of them sound.
LEMMA AnswerStepInv ==
    ASSUME GradesInv,
           answers' \in [Days -> [Brands -> Answers]], AnswersAreSound',
           grader' \in [Graders -> GraderMemory], faults' \in 0 .. MaxFaults,
           UNCHANGED <<marketVars, universe, acted, maker>>
    PROVE  GradesInv'
  BY DEF GradesInv, TypeOK, MarketTypeOK, marketVars, GraderMemory

LEMMA SubmitKeepsInv ==
    ASSUME GradesInv, NEW d \in Days, NEW b \in Brands,
           NEW prediction \in Predictions, SubmitAnswer(d, b, prediction)
    PROVE  GradesInv'
  <1> DEFINE a == FreshAnswer(prediction)
  <1>1. a \in Answers /\ SoundAnswer(a)
    BY FreshAnswerSound, QuizAssumption
  <1>2. /\ answers \in [Days -> [Brands -> Answers]]
        /\ grader \in [Graders -> GraderMemory]
        /\ faults \in 0 .. MaxFaults
    BY DEF GradesInv, TypeOK, GraderMemory
  <1>3. answers' = [answers EXCEPT ![d][b] = a]
    BY DEF SubmitAnswer
  <1> HIDE DEF a
  <1>4. answers' \in [Days -> [Brands -> Answers]] /\ AnswersAreSound'
    BY <1>1, <1>2, <1>3 DEF GradesInv, AnswersAreSound
  <1>5. QED
    BY <1>2, <1>4, AnswerStepInv DEF SubmitAnswer

LEMMA GraderKeepsInv ==
    ASSUME GradesInv, NEW g \in Graders, Grading(g) \/ GraderDies(g)
    PROVE  GradesInv'
  <1>1. /\ MarketTypeOK
        /\ answers \in [Days -> [Brands -> Answers]]
        /\ grader \in [Graders -> GraderMemory]
        /\ faults \in 0 .. MaxFaults
        /\ AnswersAreSound
    BY DEF GradesInv, TypeOK, GraderMemory
  <1>2. CASE BeginGrade(g)
    <2>1. [pc |-> "grade", held |-> [d \in Days |-> Ungraded(d)]] \in GraderMemory
      BY DEF GraderMemory, Ungraded, Answered
    <2>2. grader' \in [Graders -> GraderMemory]
      BY <1>1, <1>2, <2>1 DEF BeginGrade
    <2>3. AnswersAreSound'
      BY <1>1, <1>2 DEF BeginGrade, AnswersAreSound
    <2>4. QED
      BY <1>1, <1>2, <2>2, <2>3, AnswerStepInv DEF BeginGrade
  <1>3. CASE CommitGrade(g)
    <2>1. PICK move \in [Brands -> Moves] :
              answers' = [d \in Days |-> [b \in Brands |->
                  IF b \in Gradable(g, d)
                  THEN Graded(answers[d][b], d, b, move[b])
                  ELSE answers[d][b]]]
      BY <1>3 DEF CommitGrade
    <2>2. ASSUME NEW d \in Days, NEW b \in Brands
          PROVE  /\ answers'[d][b] \in Answers
                 /\ SoundAnswer(answers'[d][b])
      <3>1. /\ answers[d][b] \in Answers
            /\ SoundAnswer(answers[d][b])
            /\ move[b] \in Moves
        BY <1>1 DEF AnswersAreSound
      <3>2. /\ Graded(answers[d][b], d, b, move[b]) \in Answers
            /\ SoundAnswer(Graded(answers[d][b], d, b, move[b]))
        BY <1>1, <3>1, GradedSound
      <3>3. \/ answers'[d][b] = Graded(answers[d][b], d, b, move[b])
            \/ answers'[d][b] = answers[d][b]
        BY <2>1
      <3>4. QED
        BY <3>1, <3>2, <3>3
    <2>3. answers' \in [Days -> [Brands -> Answers]] /\ AnswersAreSound'
      <3>1. \A d \in Days : answers'[d] \in [Brands -> Answers]
        BY <2>1, <2>2
      <3>2. QED
        BY <2>1, <2>2, <3>1 DEF AnswersAreSound
    <2>4. grader' \in [Graders -> GraderMemory]
      BY <1>1, <1>3, IdleTypes DEF CommitGrade
    <2>5. QED
      BY <1>1, <1>3, <2>3, <2>4, AnswerStepInv DEF CommitGrade
  <1>4. CASE GraderDies(g)
    <2>1. faults' \in 0 .. MaxFaults
      BY <1>1, <1>4, QuizAssumption DEF GraderDies
    <2>2. grader' \in [Graders -> GraderMemory]
      BY <1>1, <1>4, IdleTypes DEF GraderDies
    <2>3. AnswersAreSound'
      BY <1>1, <1>4 DEF GraderDies, AnswersAreSound
    <2>4. QED
      BY <1>1, <1>4, <2>1, <2>2, <2>3, AnswerStepInv DEF GraderDies
  <1>5. CASE GradePanics(g)
    <2>1. grader' \in [Graders -> GraderMemory]
      BY <1>1, <1>5, IdleTypes DEF GradePanics
    <2>2. AnswersAreSound'
      BY <1>1, <1>5 DEF GradePanics, AnswersAreSound
    <2>3. QED
      BY <1>1, <1>5, <2>1, <2>2, AnswerStepInv DEF GradePanics
  <1>6. QED
    BY <1>2, <1>3, <1>4, <1>5 DEF Grading

LEMMA GradesStep == GradesInv /\ [Next]_vars => GradesInv'
  <1> SUFFICES ASSUME GradesInv, [Next]_vars
               PROVE  GradesInv'
    OBVIOUS
  <1>1. ASSUME NEW p \in Makers, MakeUniverse(p) \/ MakerDies(p)
        PROVE  GradesInv'
    BY <1>1, MakerKeepsInv
  <1>2. ASSUME NEW d \in Days, NEW b \in Brands, NEW prediction \in Predictions,
               SubmitAnswer(d, b, prediction)
        PROVE  GradesInv'
    BY <1>2, SubmitKeepsInv
  <1>3. ASSUME NEW g \in Graders, Grading(g) \/ GraderDies(g)
        PROVE  GradesInv'
    BY <1>3, GraderKeepsInv
  <1>4. ASSUME NEW b \in Brands, NEW d \in Days, RecordCorporateAction(b, d)
        PROVE  GradesInv'
    BY <1>4 DEF RecordCorporateAction, GradesInv, TypeOK, MarketTypeOK, marketVars,
                AnswersAreSound
  <1>5. CASE MarketChanges
    <2>1. Ingestion \/ Relisting \/ NextDay
      BY <1>5 DEF MarketChanges
    <2>2. MarketTypeOK'
      BY <2>1, MarketTypePreserved DEF GradesInv, TypeOK
    <2>3. QED
      BY <1>5, <2>2 DEF MarketChanges, quizVars, GradesInv, TypeOK, AnswersAreSound
  <1>6. CASE UNCHANGED vars
    BY <1>6 DEF vars, GradesInv, TypeOK, MarketTypeOK, AnswersAreSound
  <1>7. QED
    BY <1>1, <1>2, <1>3, <1>4, <1>5, <1>6 DEF Next

LEMMA GradesAlways == Spec => []GradesInv
  BY GradesInit, GradesStep, PTL DEF Spec

\* Type correctness of every variable of the quiz, for all constants.
THEOREM QuizTypeCorrect == Spec => []TypeOK
  <1>1. GradesInv => TypeOK
    BY DEF GradesInv
  <1>2. QED
    BY <1>1, GradesAlways, PTL

\* The score, the close and the outcome of an answer belong together, with any
\* number of graders overlapping: UpdateGrading writes the fields of a stale
\* copy over whatever the row has become.
THEOREM GradesSound == Spec => []GradesAreSound
  <1>1. GradesInv => GradesAreSound
    BY DEF GradesInv, AnswersAreSound, SoundAnswer, GradesAreSound, Answered
  <1>2. QED
    BY <1>1, GradesAlways, PTL

-----------------------------------------------------------------------------
(* A grade is final, with one grader at a time *)

\* What makes the grades final: a grader only holds answers that nobody else
\* can have graded since.
HeldAreUngraded ==
    \A g \in Graders, d \in Days :
        \A b \in grader[g].held[d] : answers[d][b].outcome = "null"

LEMMA HeldInit == Init => HeldAreUngraded
  BY DEF Init, HeldAreUngraded, IdleGrader, NothingHeld

\* Answers are only written where there is none, or by a grader.
LEMMA HeldStep ==
    ASSUME \A g, h \in Graders : g = h, GradesInv, HeldAreUngraded, [Next]_vars
    PROVE  HeldAreUngraded'
  <1>1. /\ answers \in [Days -> [Brands -> Answers]]
        /\ grader \in [Graders -> GraderMemory]
    BY DEF GradesInv, TypeOK, GraderMemory
  <1>2. CASE UNCHANGED <<answers, grader>>
    BY <1>2 DEF HeldAreUngraded
  <1>3. ASSUME NEW d \in Days, NEW b \in Brands, NEW prediction \in Predictions,
               SubmitAnswer(d, b, prediction)
        PROVE  HeldAreUngraded'
    <2>1. /\ answers' = [answers EXCEPT ![d][b] = FreshAnswer(prediction)]
          /\ grader' = grader
          /\ FreshAnswer(prediction).outcome = "null"
      BY <1>3 DEF SubmitAnswer, FreshAnswer
    <2>2. ASSUME NEW x \in Days, NEW y \in Brands,
                 answers[x][y].outcome = "null"
          PROVE  answers'[x][y].outcome = "null"
      BY <1>1, <2>1, <2>2
    <2>3. \A g \in Graders, x \in Days : grader[g].held[x] \subseteq Brands
      BY <1>1 DEF GraderMemory
    <2>4. QED
      BY <2>1, <2>2, <2>3 DEF HeldAreUngraded
  <1>4. ASSUME NEW g \in Graders, BeginGrade(g)
        PROVE  HeldAreUngraded'
    <2>1. /\ answers' = answers
          /\ grader'[g].held = [d \in Days |-> Ungraded(d)]
      BY <1>1, <1>4 DEF BeginGrade
    <2>2. ASSUME NEW d \in Days, NEW b \in Ungraded(d)
          PROVE  answers[d][b].outcome = "null"
      BY DEF Ungraded
    <2>3. QED
      BY <2>1, <2>2 DEF HeldAreUngraded
  <1>5. ASSUME NEW g \in Graders, CommitGrade(g) \/ GradePanics(g) \/ GraderDies(g)
        PROVE  HeldAreUngraded'
    <2>1. grader'[g].held = NothingHeld
      BY <1>1, <1>5 DEF CommitGrade, GradePanics, GraderDies, IdleGrader
    <2>2. QED
      BY <2>1 DEF HeldAreUngraded, NothingHeld
  <1>6. QED
    BY <1>2, <1>3, <1>4, <1>5
       DEF Next, Grading, MakeUniverse, BeginUniverse, CheckUniverse, SelectUniverse,
           InsertUniverse, MakerDies, RecordCorporateAction, MarketChanges,
           quizVars, vars

\* A stored grade never changes when graders do not overlap: late bars, splits
\* and delistings only count for answers that have no grade yet.
THEOREM GradesStayFinal ==
    ASSUME \A g, h \in Graders : g = h
    PROVE  Spec => GradesAreFinal
  <1> DEFINE Final == \A d \in Days : \A b \in Answered(d) :
                  answers[d][b].outcome # "null" => answers'[d][b] = answers[d][b]
  <1>1. GradesInv /\ HeldAreUngraded /\ [Next]_vars => HeldAreUngraded'
    BY HeldStep
  <1>2. GradesInv /\ HeldAreUngraded /\ [Next]_vars => Final \/ UNCHANGED vars
    <2> SUFFICES ASSUME GradesInv, HeldAreUngraded, Next,
                        NEW d \in Days, NEW b \in Answered(d),
                        answers[d][b].outcome # "null"
                 PROVE  answers'[d][b] = answers[d][b]
      OBVIOUS
    <2>1. answers \in [Days -> [Brands -> Answers]] /\ b \in Brands
      BY DEF GradesInv, TypeOK, Answered
    <2>2. CASE UNCHANGED answers
      BY <2>2
    <2>3. ASSUME NEW x \in Days, NEW y \in Brands, NEW prediction \in Predictions,
                 SubmitAnswer(x, y, prediction)
          PROVE  answers'[d][b] = answers[d][b]
      <3>1. d # x \/ b # y
        BY <2>3 DEF SubmitAnswer
      <3>2. QED
        BY <2>1, <2>3, <3>1 DEF SubmitAnswer
    <2>4. ASSUME NEW g \in Graders, CommitGrade(g)
          PROVE  answers'[d][b] = answers[d][b]
      <3>1. b \notin grader[g].held[d]
        BY DEF HeldAreUngraded
      <3>2. QED
        BY <2>1, <2>4, <3>1 DEF CommitGrade, Gradable
    <2>5. QED
      BY <2>2, <2>3, <2>4
         DEF Next, Grading, MakeUniverse, BeginUniverse, CheckUniverse,
             SelectUniverse, InsertUniverse, MakerDies, BeginGrade, GradePanics,
             GraderDies,
             RecordCorporateAction, MarketChanges, quizVars
  <1>3. QED
    BY <1>1, <1>2, HeldInit, GradesAlways, PTL DEF Spec, GradesAreFinal

-----------------------------------------------------------------------------
(* The statistics explain the score *)

\* The answers of a set with some outcome, by the confidence of the prediction.
Normal(K, outcome) ==
    {k \in K : AnswerOf(k).outcome = outcome /\ ~IsStrong(AnswerOf(k).prediction)}
Strong(K, outcome) ==
    {k \in K : AnswerOf(k).outcome = outcome /\ IsStrong(AnswerOf(k).prediction)}

\* One point for each hit, two for a strong one, and as many lost for a miss.
Points(K) ==
    (Cardinality(Normal(K, "correct")) - Cardinality(Normal(K, "incorrect")))
    + 2 * (Cardinality(Strong(K, "correct")) - Cardinality(Strong(K, "incorrect")))

LEMMA PartsAreFinite ==
    ASSUME NEW K, IsFiniteSet(K), NEW outcome
    PROVE  /\ IsFiniteSet(Normal(K, outcome)) /\ IsFiniteSet(Strong(K, outcome))
           /\ Cardinality(Normal(K, outcome)) \in Nat
           /\ Cardinality(Strong(K, outcome)) \in Nat
  <1>1. Normal(K, outcome) \in SUBSET K /\ Strong(K, outcome) \in SUBSET K
    BY DEF Normal, Strong
  <1>2. QED
    BY <1>1, FS_Subset, FS_CardinalityType

LEMMA PartsAddUp ==
    ASSUME NEW A, IsFiniteSet(A), NEW B, IsFiniteSet(B), A \cap B = {}, NEW o
    PROVE  /\ Cardinality(Normal(A \cup B, o)) = Cardinality(Normal(A, o)) + Cardinality(Normal(B, o))
           /\ Cardinality(Strong(A \cup B, o)) = Cardinality(Strong(A, o)) + Cardinality(Strong(B, o))
  <1>1. /\ Normal(A \cup B, o) = Normal(A, o) \cup Normal(B, o)
        /\ Normal(A, o) \cap Normal(B, o) = {}
    BY DEF Normal
  <1>2. /\ Strong(A \cup B, o) = Strong(A, o) \cup Strong(B, o)
        /\ Strong(A, o) \cap Strong(B, o) = {}
    BY DEF Strong
  <1>3. QED
    BY <1>1, <1>2, PartsAreFinite, DisjointSizes

LEMMA PointsAddUp ==
    ASSUME NEW A, IsFiniteSet(A), NEW B, IsFiniteSet(B), A \cap B = {}
    PROVE  Points(A \cup B) = Points(A) + Points(B)
  <1>1. \A o : /\ Cardinality(Normal(A \cup B, o)) = Cardinality(Normal(A, o)) + Cardinality(Normal(B, o))
               /\ Cardinality(Strong(A \cup B, o)) = Cardinality(Strong(A, o)) + Cardinality(Strong(B, o))
    BY PartsAddUp
  <1>2. \A o : /\ Cardinality(Normal(A, o)) \in Nat /\ Cardinality(Normal(B, o)) \in Nat
               /\ Cardinality(Strong(A, o)) \in Nat /\ Cardinality(Strong(B, o)) \in Nat
    BY PartsAreFinite
  <1> DEFINE nc(K) == Cardinality(Normal(K, "correct"))
             ni(K) == Cardinality(Normal(K, "incorrect"))
             sc(K) == Cardinality(Strong(K, "correct"))
             si(K) == Cardinality(Strong(K, "incorrect"))
  <1>3. \A K : Points(K) = (nc(K) - ni(K)) + 2 * (sc(K) - si(K))
    BY DEF Points
  <1>4. /\ nc(A) \in Nat /\ ni(A) \in Nat /\ sc(A) \in Nat /\ si(A) \in Nat
        /\ nc(B) \in Nat /\ ni(B) \in Nat /\ sc(B) \in Nat /\ si(B) \in Nat
    BY <1>2
  <1>5. /\ nc(A \cup B) = nc(A) + nc(B) /\ ni(A \cup B) = ni(A) + ni(B)
        /\ sc(A \cup B) = sc(A) + sc(B) /\ si(A \cup B) = si(A) + si(B)
    BY <1>1
  <1> HIDE DEF nc, ni, sc, si
  <1>6. QED
    BY <1>3, <1>4, <1>5

LEMMA PointsOfNone == Points({}) = 0
  <1>1. \A o : Normal({}, o) = {} /\ Strong({}, o) = {}
    BY DEF Normal, Strong
  <1>2. QED
    BY <1>1, FS_EmptySet DEF Points

\* A sound answer scores the points of its outcome.
LEMMA PointsOfOne ==
    ASSUME NEW k, SoundAnswer(AnswerOf(k))
    PROVE  Points({k}) = AnswerOf(k).score
  <1> DEFINE a == AnswerOf(k)
             strong == IsStrong(a.prediction)
  <1>1. \A o : /\ Normal({k}, o) = IF a.outcome = o /\ ~strong THEN {k} ELSE {}
               /\ Strong({k}, o) = IF a.outcome = o /\ strong THEN {k} ELSE {}
    BY DEF Normal, Strong
  <1>2. Cardinality({k}) = 1 /\ Cardinality({}) = 0
    BY FS_Singleton, FS_EmptySet
  <1>3. a.score = CASE a.outcome = "correct" -> IF strong THEN 2 ELSE 1
                    [] a.outcome = "incorrect" -> IF strong THEN -2 ELSE -1
                    [] OTHER -> 0
    BY DEF SoundAnswer
  <1> HIDE DEF a, strong
  <1>4. \A o : /\ Cardinality(Normal({k}, o)) = IF a.outcome = o /\ ~strong THEN 1 ELSE 0
               /\ Cardinality(Strong({k}, o)) = IF a.outcome = o /\ strong THEN 1 ELSE 0
    BY <1>1, <1>2
  <1>5. CASE a.outcome = "correct" /\ strong
    BY <1>3, <1>4, <1>5 DEF Points, a
  <1>6. CASE a.outcome = "correct" /\ ~strong
    BY <1>3, <1>4, <1>6 DEF Points, a
  <1>7. CASE a.outcome = "incorrect" /\ strong
    BY <1>3, <1>4, <1>7 DEF Points, a
  <1>8. CASE a.outcome = "incorrect" /\ ~strong
    BY <1>3, <1>4, <1>8 DEF Points, a
  <1>9. CASE a.outcome \notin {"correct", "incorrect"}
    BY <1>3, <1>4, <1>9 DEF Points, a
  <1>10. QED
    BY <1>5, <1>6, <1>7, <1>8, <1>9

\* The answers of some dates are finitely many and sound.
LEMMA AnswersOfSound ==
    ASSUME GradesInv, NEW dates, dates \subseteq Days
    PROVE  /\ IsFiniteSet(AnswersOf(dates))
           /\ \A k \in AnswersOf(dates) :
                  SoundAnswer(AnswerOf(k)) /\ AnswerOf(k).prediction \in QuizPredictions
  <1>1. IsFiniteSet(dates \X Brands)
    BY PricesAreFinite, BrandsAssumption, FS_Product
  <1>2. IsFiniteSet(AnswersOf(dates))
    BY <1>1, FS_Subset DEF AnswersOf
  <1>3. ASSUME NEW k \in AnswersOf(dates)
        PROVE  SoundAnswer(AnswerOf(k)) /\ AnswerOf(k).prediction \in QuizPredictions
    <2>1. k[1] \in Days /\ k[2] \in Brands /\ AnswerOf(k).prediction # "none"
      BY DEF AnswersOf, Answered, AnswerOf
    <2>2. AnswerOf(k) \in Answers /\ SoundAnswer(AnswerOf(k))
      BY <2>1 DEF GradesInv, TypeOK, AnswersAreSound, AnswerOf
    <2>3. QED
      BY <2>1, <2>2 DEF Answers
  <1>4. QED
    BY <1>2, <1>3

\* The score of a set of sound answers, as the API adds it up.
LEMMA ScoreIsPoints ==
    ASSUME NEW K, IsFiniteSet(K), \A k \in K : SoundAnswer(AnswerOf(k))
    PROVE  ScoreOf(K) = Points(K)
  <1> DEFINE F == [k \in K |-> AnswerOf(k).score]
             G == [s \in SUBSET K |-> Points(s)]
             sum == CHOOSE g : g = [s \in SUBSET K |->
                 IF s = {} THEN 0
                 ELSE AnswerOf(CHOOSE x \in s : TRUE).score + g[s \ {CHOOSE x \in s : TRUE}]]
  <1>1. ScoreOf(K) = sum[K]
    BY DEF ScoreOf, MapThenSumSet, MapThenFoldSet
  <1>2. PICK g : IsSum(g, K, F)
    <2> HIDE DEF F
    <2>1. QED
      BY SumsExist
  <1>3. \A s \in SUBSET K :
            s # {} => AnswerOf(CHOOSE x \in s : TRUE).score = F[CHOOSE x \in s : TRUE]
    OBVIOUS
  <1>4. g = [s \in SUBSET K |->
                 IF s = {} THEN 0
                 ELSE AnswerOf(CHOOSE x \in s : TRUE).score + g[s \ {CHOOSE x \in s : TRUE}]]
    BY <1>2, <1>3 DEF IsSum
  <1>5. sum = [s \in SUBSET K |->
                 IF s = {} THEN 0
                 ELSE AnswerOf(CHOOSE x \in s : TRUE).score + sum[s \ {CHOOSE x \in s : TRUE}]]
    BY <1>4
  <1> HIDE DEF sum
  <1>6. IsSum(sum, K, F)
    BY <1>3, <1>5 DEF IsSum
  <1>7. G[{}] = 0 /\ G[K] = Points(K)
    BY PointsOfNone
  <1>8. ASSUME NEW s \in SUBSET K, NEW k \in s
        PROVE  G[s] = F[k] + G[s \ {k}]
    <2> DEFINE rest == s \ {k}
    <2>1. IsFiniteSet(rest) /\ IsFiniteSet({k}) /\ {k} \cap rest = {} /\ s = {k} \cup rest
      BY FS_Subset, FS_Singleton
    <2>2. G[s] = Points(s) /\ G[rest] = Points(rest) /\ F[k] = AnswerOf(k).score /\ k \in K
      OBVIOUS
    <2> HIDE DEF rest, F, G
    <2>3. Points({k} \cup rest) = Points({k}) + Points(rest)
      BY <2>1, PointsAddUp
    <2>4. Points({k}) = AnswerOf(k).score
      BY <2>2, PointsOfOne
    <2>5. QED
      BY <2>1, <2>2, <2>3, <2>4 DEF rest
  <1> HIDE DEF F, G
  <1>9. sum[K] = G[K]
    BY <1>6, <1>7, <1>8, SumIsAdditive, SMTT(30)
  <1>10. QED
    BY <1>1, <1>7, <1>9

LEMMA StatsFollow ==
    ASSUME GradesInv
    PROVE  StatsExplainTheScore
  <1> DEFINE all == AnswersOf(Days)
             s == Stats
             Net(acc) == acc.correct - (acc.decided - acc.correct)
             D == {k[1] : k \in all}
  <1>1. IsFiniteSet(all) /\ \A k \in all : SoundAnswer(AnswerOf(k))
    BY AnswersOfSound
  <1>2. /\ s.score = ScoreOf(all) /\ s.accuracy = Accuracy(all)
        /\ s.normal = Accuracy(OfConfidence(FALSE)) /\ s.strong = Accuracy(OfConfidence(TRUE))
        /\ DOMAIN s.daily = D
    BY DEF Stats
  <1>2a. \A d \in D : /\ s.daily[d].answered = Results(d).answered
                     /\ s.daily[d].score = Results(d).score
                     /\ s.daily[d].pending = OutcomeIs(AnswersOf({d}), "null")
    BY DEF Stats
  <1>3. \A o : /\ OutcomeIs(OfConfidence(FALSE), o) = Cardinality(Normal(all, o))
               /\ OutcomeIs(OfConfidence(TRUE), o) = Cardinality(Strong(all, o))
               /\ OutcomeIs(all, o) = Cardinality(Normal(all, o)) + Cardinality(Strong(all, o))
    <2>1. ASSUME NEW o
          PROVE  /\ OutcomeIs(OfConfidence(FALSE), o) = Cardinality(Normal(all, o))
                 /\ OutcomeIs(OfConfidence(TRUE), o) = Cardinality(Strong(all, o))
                 /\ OutcomeIs(all, o) = Cardinality(Normal(all, o)) + Cardinality(Strong(all, o))
      <3>1. {k \in OfConfidence(FALSE) : AnswerOf(k).outcome = o} = Normal(all, o)
        BY DEF OfConfidence, Normal, IsStrong
      <3>2. {k \in OfConfidence(TRUE) : AnswerOf(k).outcome = o} = Strong(all, o)
        BY DEF OfConfidence, Strong, IsStrong
      <3>3. /\ {k \in all : AnswerOf(k).outcome = o} = Normal(all, o) \cup Strong(all, o)
            /\ Normal(all, o) \cap Strong(all, o) = {}
        BY DEF Normal, Strong
      <3>4. Cardinality(Normal(all, o) \cup Strong(all, o))
                = Cardinality(Normal(all, o)) + Cardinality(Strong(all, o))
        BY <1>1, <3>3, PartsAreFinite, DisjointSizes
      <3>5. QED
        BY <3>1, <3>2, <3>3, <3>4 DEF OutcomeIs
    <2>2. QED
      BY <2>1
  <1>4. \A o : Cardinality(Normal(all, o)) \in Nat /\ Cardinality(Strong(all, o)) \in Nat
    BY <1>1, PartsAreFinite
  <1> HIDE DEF all, s
  <1>4a. /\ s.normal = [correct |-> Cardinality(Normal(all, "correct")),
                       decided |-> Cardinality(Normal(all, "correct"))
                                     + Cardinality(Normal(all, "incorrect"))]
        /\ s.strong = [correct |-> Cardinality(Strong(all, "correct")),
                       decided |-> Cardinality(Strong(all, "correct"))
                                     + Cardinality(Strong(all, "incorrect"))]
    BY <1>2, <1>3 DEF Accuracy
  <1>5. s.score = Net(s.normal) + 2 * Net(s.strong)
    <2> DEFINE nc == Cardinality(Normal(all, "correct"))
               ni == Cardinality(Normal(all, "incorrect"))
               sc == Cardinality(Strong(all, "correct"))
               si == Cardinality(Strong(all, "incorrect"))
    <2>1. s.score = (nc - ni) + 2 * (sc - si)
      BY <1>1, <1>2, ScoreIsPoints DEF Points
    <2>2. s.normal = [correct |-> nc, decided |-> nc + ni]
      BY <1>4a
    <2>3. s.strong = [correct |-> sc, decided |-> sc + si]
      BY <1>4a
    <2>4. nc \in Nat /\ ni \in Nat /\ sc \in Nat /\ si \in Nat
      BY <1>4
    <2> HIDE DEF nc, ni, sc, si
    <2>5. Net(s.normal) = nc - ni /\ Net(s.strong) = sc - si
      BY <2>2, <2>3, <2>4
    <2> HIDE DEF Net
    <2>6. QED
      BY <2>1, <2>4, <2>5
  <1>6. s.accuracy.decided = s.normal.decided + s.strong.decided
    <2>1. s.accuracy.decided = OutcomeIs(all, "correct") + OutcomeIs(all, "incorrect")
      BY <1>2 DEF Accuracy
    <2>2. s.normal.decided = Cardinality(Normal(all, "correct")) + Cardinality(Normal(all, "incorrect"))
      BY <1>4a
    <2>3. s.strong.decided = Cardinality(Strong(all, "correct")) + Cardinality(Strong(all, "incorrect"))
      BY <1>4a
    <2>4. /\ OutcomeIs(all, "correct") = Cardinality(Normal(all, "correct")) + Cardinality(Strong(all, "correct"))
          /\ OutcomeIs(all, "incorrect") = Cardinality(Normal(all, "incorrect")) + Cardinality(Strong(all, "incorrect"))
      BY <1>3
    <2>5. /\ Cardinality(Normal(all, "correct")) \in Nat /\ Cardinality(Normal(all, "incorrect")) \in Nat
          /\ Cardinality(Strong(all, "correct")) \in Nat /\ Cardinality(Strong(all, "incorrect")) \in Nat
      BY <1>4
    <2>6. QED
      BY <2>1, <2>2, <2>3, <2>4, <2>5
  <1>7. D \subseteq Days /\ IsFiniteSet(D)
    <2>1. D \subseteq Days
      BY DEF all, AnswersOf
    <2>2. QED
      BY <2>1, PricesAreFinite
  <1>8. \A d \in D : AnswersOf({d}) = {k \in all : k[1] = d}
    BY <1>7 DEF all, AnswersOf
  <1>9. ASSUME NEW d \in D
        PROVE  /\ Results(d).score = Points(AnswersOf({d}))
               /\ Results(d).graded <=> s.daily[d].pending = 0
               /\ QuestionSet(d).answered = s.daily[d].answered
    <2> DEFINE K == AnswersOf({d})
    <2>1. {d} \subseteq Days
      BY <1>7
    <2>2. IsFiniteSet(K) /\ \A k \in K : SoundAnswer(AnswerOf(k))
      BY <2>1, AnswersOfSound
    <2>3. K # {}
      BY <1>8
    <2>4. K = {d} \X Answered(d)
      BY DEF AnswersOf, Answered
    <2>5. /\ Results(d).score = ScoreOf(K) /\ Results(d).answered = Cardinality(K)
          /\ Results(d).graded <=> K # {} /\ \A k \in K : AnswerOf(k).outcome # "null"
      BY DEF Results
    <2>6. s.daily[d].pending = OutcomeIs(K, "null") /\ s.daily[d].answered = Results(d).answered
      BY <1>2a
    <2> HIDE DEF K
    <2>7. Results(d).score = Points(K)
      BY <2>2, <2>5, ScoreIsPoints
    <2>8. OutcomeIs(K, "null") = 0 <=> \A k \in K : AnswerOf(k).outcome # "null"
      <3>1. IsFiniteSet({k \in K : AnswerOf(k).outcome = "null"})
        BY <2>2, FS_Subset
      <3>2. OutcomeIs(K, "null") = 0 <=> {k \in K : AnswerOf(k).outcome = "null"} = {}
        BY <3>1, FS_EmptySet DEF OutcomeIs
      <3>3. QED
        BY <3>2
    <2>9. Cardinality(K) = Cardinality(Answered(d))
      <3>1. IsFiniteSet(Answered(d)) /\ Cardinality(Answered(d)) \in Nat
        BY SymbolsAreFinite DEF Answered
      <3>2. IsFiniteSet({d}) /\ Cardinality({d}) = 1
        BY FS_Singleton
      <3>3. Cardinality({d} \X Answered(d)) = Cardinality({d}) * Cardinality(Answered(d))
        BY <3>1, <3>2, FS_Product
      <3>4. QED
        BY <2>4, <3>1, <3>2, <3>3
    <2>10. QED
      BY <2>3, <2>5, <2>6, <2>7, <2>8, <2>9 DEF K, QuestionSet
  <1>10. s.score = MapThenSumSet(LAMBDA d : s.daily[d].score, D)
    <2> DEFINE Part(t) == {k \in all : k[1] \in t}
               F == [d \in D |-> s.daily[d].score]
               G == [t \in SUBSET D |-> Points(Part(t))]
               sum == CHOOSE g : g = [t \in SUBSET D |->
                   IF t = {} THEN 0
                   ELSE s.daily[CHOOSE x \in t : TRUE].score + g[t \ {CHOOSE x \in t : TRUE}]]
    <2>1. MapThenSumSet(LAMBDA d : s.daily[d].score, D) = sum[D]
      BY DEF MapThenSumSet, MapThenFoldSet
    <2>2. PICK g : IsSum(g, D, F)
      <3> HIDE DEF F, D
      <3>1. QED
        BY <1>7, SumsExist
    <2>3. \A t \in SUBSET D :
              t # {} => s.daily[CHOOSE x \in t : TRUE].score = F[CHOOSE x \in t : TRUE]
      OBVIOUS
    <2>4. g = [t \in SUBSET D |->
                   IF t = {} THEN 0
                   ELSE s.daily[CHOOSE x \in t : TRUE].score + g[t \ {CHOOSE x \in t : TRUE}]]
      BY <2>2, <2>3 DEF IsSum
    <2>5. sum = [t \in SUBSET D |->
                   IF t = {} THEN 0
                   ELSE s.daily[CHOOSE x \in t : TRUE].score + sum[t \ {CHOOSE x \in t : TRUE}]]
      BY <2>4
    <2> HIDE DEF sum
    <2>6. IsSum(sum, D, F)
      BY <2>3, <2>5 DEF IsSum
    <2>7. G[{}] = 0
      <3>1. Part({}) = {}
        OBVIOUS
      <3>2. QED
        BY <3>1, PointsOfNone
    <2>8. ASSUME NEW t \in SUBSET D, NEW d \in t
          PROVE  G[t] = F[d] + G[t \ {d}]
      <3> DEFINE rest == t \ {d}
                 A == AnswersOf({d})
      <3>1. A = {k \in all : k[1] = d} /\ d \in D
        BY <1>8
      <3>2. Part(t) = A \cup Part(rest) /\ A \cap Part(rest) = {}
        BY <3>1
      <3>3. A \in SUBSET all /\ Part(rest) \in SUBSET all
        BY <3>1
      <3>4. IsFiniteSet(A) /\ IsFiniteSet(Part(rest))
        BY <1>1, <3>3, FS_Subset
      <3>5. F[d] = Points(A)
        <4>1. F[d] = Results(d).score
          BY <1>2a, <3>1
        <4>2. QED
          BY <1>9, <3>1, <4>1
      <3>6. G[t] = Points(Part(t)) /\ G[rest] = Points(Part(rest))
        OBVIOUS
      <3> HIDE DEF A, Part, rest, F, G
      <3>7. Points(A \cup Part(rest)) = Points(A) + Points(Part(rest))
        BY <3>2, <3>4, PointsAddUp
      <3>8. QED
        BY <3>2, <3>5, <3>6, <3>7 DEF rest
    <2>9. Part(D) = all /\ G[D] = Points(Part(D))
      BY DEF D
    <2> HIDE DEF F, G, Part
    <2>10. sum[D] = G[D]
      <3> HIDE DEF D
      <3>1. QED
        BY <1>7, <2>6, <2>7, <2>8, SumIsAdditive
    <2>11. s.score = Points(all)
      BY <1>1, <1>2, ScoreIsPoints
    <2>12. QED
      BY <2>1, <2>9, <2>10, <2>11
  <1>11. \A d \in D : /\ Results(d).graded <=> s.daily[d].pending = 0
                      /\ QuestionSet(d).answered = s.daily[d].answered
    BY <1>9
  <1>12. QED
    BY <1>2, <1>5, <1>6, <1>10, <1>11 DEF StatsExplainTheScore, s

\* The figures GetStats answers explain each other at every moment, with any
\* number of graders overlapping: the total score is the hits minus the misses,
\* strong ones twice, and the sum of the days.
THEOREM StatsAreExplained == Spec => []StatsExplainTheScore
  <1>1. GradesInv => StatsExplainTheScore
    BY StatsFollow
  <1>2. QED
    BY <1>1, GradesAlways, PTL

-----------------------------------------------------------------------------
(* One universe process and no delisting: the questions of a date are      *)
(* numbered and frozen, and, when bars arrive in date order, answers are   *)
(* graded on the first trading day after.                                  *)

Numbered(orders) ==
    LET S == {b \in Brands : orders[b] > 0} IN {orders[b] : b \in S} = 1 .. Cardinality(S)

\* What a universe process relies on between its queries: the date it found
\* is still a trading date in its window, and still has no questions once it
\* has looked.
KnowsItsDate(c) ==
    /\ c.pc # "idle" => c.date \in TradingDates /\ c.from <= c.date
    /\ c.pc \in {"select", "insert"} => Questions(c.date) = {}
    /\ c.pc = "insert" => Numbered(c.orders)

UniverseInv ==
    /\ listed = Brands
    /\ OrdersAreOneToN
    /\ \A p \in Makers : KnowsItsDate(maker[p])

LEMMA UniverseInit == Init => UniverseInv
  <1> SUFFICES ASSUME Init PROVE UniverseInv
    OBVIOUS
  <1>1. listed = Brands
    BY DEF Init, MarketInit
  <1>2. \A d \in Days : Questions(d) = {}
    BY DEF Init, Questions, NoOrders
  <1>3. OrdersAreOneToN
    <2>1. Cardinality({}) = 0 /\ 1 .. 0 = {}
      BY FS_EmptySet
    <2>2. QED
      BY <1>2, <2>1 DEF OrdersAreOneToN
  <1>4. \A p \in Makers : KnowsItsDate(maker[p])
    BY DEF Init, IdleMaker, KnowsItsDate
  <1>5. QED
    BY <1>1, <1>3, <1>4 DEF UniverseInv

\* The next memory of the only universe process, when it writes nothing.
LEMMA UniverseByMaker ==
    ASSUME TypeOK, UniverseInv, NEW p \in Makers, \A q \in Makers : q = p,
           NEW c, maker' = [maker EXCEPT ![p] = c], KnowsItsDate(c),
           UNCHANGED <<marketVars, universe>>
    PROVE  UniverseInv'
  <1>1. listed' = Brands /\ OrdersAreOneToN'
    BY DEF UniverseInv, marketVars, OrdersAreOneToN, Questions
  <1>2. \A q \in Makers : maker'[q] = c
    BY DEF TypeOK
  <1>3. \A q \in Makers : KnowsItsDate(maker[q])'
    BY <1>2 DEF KnowsItsDate, TradingDates, Questions, Numbered, marketVars
  <1>4. QED
    BY <1>1, <1>3 DEF UniverseInv

\* The latest trading date is among the recent ones, so the window ends with it.
LEMMA LatestIsRecent ==
    ASSUME MarketTypeOK, NEW date, IsLatest(date)
    PROVE  date \in RecentDates(Window)
  <1>1. date \in Int /\ \A x \in TradingDates : x \in Int /\ x <= date
    BY TradingDatesAreDays DEF Days, IsLatest
  <1>2. {x \in TradingDates : x > date} = {}
    BY <1>1
  <1>3. QED
    BY <1>2, FS_EmptySet, QuizAssumption DEF RecentDates, IsLatest

\* Every main-market brand being listed, the selection stores its questions
\* under the date that was checked.
LEMMA WindowEndsAtDate ==
    ASSUME MarketTypeOK, listed = Brands, Main = Brands,
           NEW c, c.date \in TradingDates, c.from \in Days, c.from <= c.date,
           NEW date \in WindowDates(c), \A x \in WindowDates(c) : x <= date
    PROVE  date = c.date
  <1>1. c.date \in Int /\ c.from \in Int
    BY TradingDatesAreDays DEF Days
  <1>2. PICK b \in Brands : c.date \in bars[b]
    BY DEF TradingDates
  <1>3. c.date \in WindowBars(b, c)
    BY <1>1, <1>2 DEF WindowBars
  <1>4. c.date <= date
    BY <1>3 DEF WindowDates
  <1>5. PICK y \in Brands : date \in WindowBars(y, c)
    BY DEF WindowDates
  <1>6. date \in c.from .. c.date
    BY <1>5 DEF WindowBars
  <1>7. QED
    BY <1>1, <1>4, <1>6

LEMMA UniverseInsert ==
    ASSUME TypeOK, UniverseInv, NEW p \in Makers, \A q \in Makers : q = p, InsertUniverse(p)
    PROVE  UniverseInv'
  <1> DEFINE c == maker[p]
  <1>1. /\ maker \in [Makers -> MakerMemory]
        /\ c.date \in Days /\ c.orders \in [Brands -> Nat]
        /\ universe \in [Days -> [Brands -> Nat]]
    BY DEF TypeOK, MakerMemory
  <1>2. Questions(c.date) = {} /\ Numbered(c.orders)
    BY DEF InsertUniverse, UniverseInv, KnowsItsDate
  <1>3. \A b \in Brands : universe[c.date][b] = 0
    BY <1>1, <1>2 DEF Questions
  <1>4. universe' = [universe EXCEPT ![c.date] =
                        [b \in Brands |-> IF c.orders[b] > 0 THEN c.orders[b]
                                                             ELSE universe[c.date][b]]]
    BY <1>1, <1>2 DEF InsertUniverse
  <1>5. universe'[c.date] = c.orders
    <2>1. \A b \in Brands : (IF c.orders[b] > 0 THEN c.orders[b] ELSE universe[c.date][b])
                                = c.orders[b]
      BY <1>1, <1>3
    <2>2. [b \in Brands |-> IF c.orders[b] > 0 THEN c.orders[b] ELSE universe[c.date][b]]
              = c.orders
      BY <1>1, <2>1
    <2>3. QED
      BY <1>1, <1>4, <2>2
  <1>6. \A d \in Days : d # c.date => universe'[d] = universe[d]
    BY <1>1, <1>4
  <1>7. OrdersAreOneToN'
    <2>1. ASSUME NEW d \in Days
          PROVE  {universe'[d][b] : b \in Questions(d)'} = 1 .. Cardinality(Questions(d)')
      <3>1. CASE d = c.date
        BY <1>2, <1>5, <3>1 DEF Numbered, Questions
      <3>2. CASE d # c.date
        <4>1. Questions(d)' = Questions(d)
          BY <1>6, <3>2 DEF Questions
        <4>2. QED
          BY <1>6, <3>2, <4>1 DEF UniverseInv, OrdersAreOneToN
      <3>3. QED
        BY <3>1, <3>2
    <2>2. QED
      BY <2>1 DEF OrdersAreOneToN
  <1>8. \A q \in Makers : maker'[q].pc = "idle"
    BY <1>1 DEF InsertUniverse, IdleMaker
  <1>9. \A q \in Makers : KnowsItsDate(maker[q])'
    BY <1>8 DEF KnowsItsDate
  <1>10. QED
    BY <1>7, <1>9 DEF UniverseInv, InsertUniverse, marketVars

LEMMA UniverseMaker ==
    ASSUME TypeOK, UniverseInv, Main = Brands,
           NEW p \in Makers, \A q \in Makers : q = p,
           MakeUniverse(p) \/ MakerDies(p)
    PROVE  UniverseInv'
  <1> DEFINE c == maker[p]
  <1>1. /\ maker \in [Makers -> MakerMemory]
        /\ c \in MakerMemory /\ c.from \in Days
        /\ MarketTypeOK
    BY DEF TypeOK, MakerMemory
  <1>2. KnowsItsDate(c)
    BY DEF UniverseInv
  <1>3. KnowsItsDate(IdleMaker)
    BY DEF IdleMaker, KnowsItsDate
  <1>4. CASE BeginUniverse(p)
    <2>1. PICK date \in TradingDates, from \in RecentDates(Window) :
              /\ IsLatest(date)
              /\ \A x \in RecentDates(Window) : from <= x
              /\ maker' = [maker EXCEPT ![p] =
                     [IdleMaker EXCEPT !.pc = "exists", !.date = date, !.from = from]]
      BY <1>4 DEF BeginUniverse
    <2> DEFINE m == [IdleMaker EXCEPT !.pc = "exists", !.date = date, !.from = from]
    <2>2. m.pc = "exists" /\ m.date = date /\ m.from = from
      BY DEF IdleMaker
    <2>3. maker' = [maker EXCEPT ![p] = m] /\ UNCHANGED <<marketVars, universe>>
      BY <1>4, <2>1 DEF BeginUniverse
    <2> HIDE DEF m
    <2>4. from <= date
      BY <1>1, <2>1, LatestIsRecent
    <2>5. KnowsItsDate(m)
      BY <2>2, <2>4 DEF KnowsItsDate
    <2>6. QED
      BY <2>3, <2>5, UniverseByMaker
  <1>5. CASE CheckUniverse(p)
    <2> DEFINE m == IF Questions(c.date) # {} THEN IdleMaker ELSE [c EXCEPT !.pc = "select"]
    <2>1. maker' = [maker EXCEPT ![p] = m] /\ UNCHANGED <<marketVars, universe>>
      BY <1>1, <1>5 DEF CheckUniverse
    <2>2. \/ m = IdleMaker
          \/ /\ m.pc = "select" /\ m.date = c.date /\ m.from = c.from
             /\ Questions(c.date) = {}
      BY <1>1 DEF MakerMemory
    <2>3. c.pc = "exists"
      BY <1>5 DEF CheckUniverse
    <2> HIDE DEF m
    <2>4. KnowsItsDate(m)
      BY <1>2, <1>3, <2>2, <2>3 DEF KnowsItsDate
    <2>5. QED
      BY <2>1, <2>4, UniverseByMaker
  <1>6. CASE SelectUniverse(p)
    <2>1. c.pc = "select" /\ UNCHANGED <<marketVars, universe>>
      BY <1>6 DEF SelectUniverse
    <2>2. PICK r \in Selections(FullBrands(c)) :
              IF r = NoOrders
              THEN maker' = [maker EXCEPT ![p] = IdleMaker]
              ELSE \E date \in WindowDates(c) :
                      /\ \A x \in WindowDates(c) : x <= date
                      /\ maker' = [maker EXCEPT ![p].pc = "insert",
                                                ![p].date = date,
                                                ![p].orders = r]
      BY <1>6 DEF SelectUniverse
    <2>3. CASE r = NoOrders
      BY <1>3, <2>1, <2>2, <2>3, UniverseByMaker
    <2>4. CASE r # NoOrders
      <3>1. PICK date \in WindowDates(c) :
                /\ \A x \in WindowDates(c) : x <= date
                /\ maker' = [maker EXCEPT ![p].pc = "insert", ![p].date = date,
                                          ![p].orders = r]
        BY <2>2, <2>4
      <3>2. date = c.date
        BY <1>1, <1>2, <2>1, <3>1, WindowEndsAtDate DEF UniverseInv, KnowsItsDate
      <3>3. Numbered(r)
        BY DEF Selections, Numbered
      <3> DEFINE m == [c EXCEPT !.pc = "insert", !.date = date, !.orders = r]
      <3>4. m.pc = "insert" /\ m.date = c.date /\ m.from = c.from /\ m.orders = r
        BY <1>1, <3>2 DEF MakerMemory
      <3>5. maker' = [maker EXCEPT ![p] = m]
        BY <1>1, <3>1 DEF MakerMemory
      <3> HIDE DEF m
      <3>6. KnowsItsDate(m)
        BY <1>2, <2>1, <3>3, <3>4 DEF KnowsItsDate
      <3>7. QED
        BY <2>1, <3>5, <3>6, UniverseByMaker
    <2>5. QED
      BY <2>3, <2>4
  <1>7. CASE InsertUniverse(p)
    BY <1>7, UniverseInsert
  <1>8. CASE MakerDies(p)
    BY <1>3, <1>8, UniverseByMaker DEF MakerDies
  <1>9. QED
    BY <1>4, <1>5, <1>6, <1>7, <1>8 DEF MakeUniverse

\* A step of anybody else: bars may be added.
LEMMA UniverseCalm ==
    ASSUME UniverseInv, UNCHANGED <<universe, maker, listed>>,
           TradingDates \subseteq TradingDates'
    PROVE  UniverseInv'
  <1>1. \A d : Questions(d)' = Questions(d)
    BY DEF Questions
  <1>2. OrdersAreOneToN'
    BY <1>1 DEF UniverseInv, OrdersAreOneToN
  <1>3. ASSUME NEW p \in Makers PROVE KnowsItsDate(maker[p])'
    <2>1. KnowsItsDate(maker[p])
      BY DEF UniverseInv
    <2>2. Numbered(maker[p].orders)' <=> Numbered(maker[p].orders)
      BY DEF Numbered
    <2>3. Questions(maker[p].date)' = Questions(maker[p].date)
      BY <1>1
    <2>4. QED
      BY <2>1, <2>2, <2>3 DEF KnowsItsDate
  <1>4. QED
    BY <1>2, <1>3 DEF UniverseInv

LEMMA UniverseStep ==
    ASSUME \A p, q \in Makers : p = q, Main = Brands, ~Relists,
           GradesInv, UniverseInv, [Next]_vars
    PROVE  UniverseInv'
  <1>1. CASE \E p \in Makers : MakeUniverse(p) \/ MakerDies(p)
    BY <1>1, UniverseMaker DEF GradesInv
  <1>2. CASE MarketChanges
    <2>1. /\ UNCHANGED <<universe, maker, listed>>
          /\ \A b \in Brands : bars[b] \subseteq bars'[b]
      BY <1>2 DEF MarketChanges, Ingestion, IngestDay, NextDay, quizVars
    <2>2. TradingDates \subseteq TradingDates'
      BY <2>1 DEF TradingDates
    <2>3. QED
      BY <2>1, <2>2, UniverseCalm
  <1>3. CASE UNCHANGED <<marketVars, universe, maker>>
    BY <1>3, UniverseCalm DEF TradingDates, marketVars
  <1>4. QED
    BY <1>1, <1>2, <1>3
       DEF Next, Grading, SubmitAnswer, BeginGrade, CommitGrade, GradePanics, GraderDies,
           RecordCorporateAction, vars, marketVars

LEMMA UniverseAlways ==
    ASSUME \A p, q \in Makers : p = q, Main = Brands, ~Relists
    PROVE  Spec => [](GradesInv /\ UniverseInv)
  <1>1. GradesInv /\ UniverseInv /\ [Next]_vars => UniverseInv'
    BY UniverseStep
  <1>2. QED
    BY <1>1, UniverseInit, GradesAlways, PTL DEF Spec

\* The questions of a date are numbered 1..N without gaps or repetitions,
\* although CreateQuizDailyUniverse checks the date in one query, computes it
\* in another and stores it in a third.
THEOREM OrdersAreNumbered ==
    ASSUME \A p, q \in Makers : p = q, Main = Brands, ~Relists
    PROVE  Spec => []OrdersAreOneToN
  <1>1. UniverseInv => OrdersAreOneToN
    BY DEF UniverseInv
  <1>2. QED
    BY <1>1, UniverseAlways, PTL

\* CreateQuizDailyUniverse is idempotent, as its comment says: the questions of
\* a date that has some are never touched again.
THEOREM UniverseStaysFrozen ==
    ASSUME \A p, q \in Makers : p = q, Main = Brands, ~Relists
    PROVE  Spec => UniverseIsFrozen
  <1>1. ASSUME GradesInv, UniverseInv, [Next]_vars, NEW d \in Days, Questions(d) # {}
        PROVE  universe'[d] = universe[d]
    <2>1. universe \in [Days -> [Brands -> Nat]]
      BY <1>1 DEF GradesInv, TypeOK
    <2>2. ASSUME NEW p \in Makers, InsertUniverse(p) PROVE universe'[d] = universe[d]
      <3>1. maker[p].date # d
        BY <1>1, <2>2 DEF InsertUniverse, UniverseInv, KnowsItsDate
      <3>2. QED
        BY <2>1, <2>2, <3>1 DEF InsertUniverse
    <2>3. QED
      BY <1>1, <2>2
         DEF Next, MakeUniverse, BeginUniverse, CheckUniverse, SelectUniverse, MakerDies,
             SubmitAnswer, Grading, BeginGrade, CommitGrade, GradePanics, GraderDies,
             RecordCorporateAction,
             MarketChanges, quizVars, vars
  <1>2. GradesInv /\ UniverseInv /\ [Next]_vars =>
            [\A d \in Days : Questions(d) # {} => universe'[d] = universe[d]]_vars
    BY <1>1
  <1>3. QED
    BY <1>2, UniverseAlways, PTL DEF Spec, UniverseIsFrozen

-----------------------------------------------------------------------------
(* The date of a grade, when bars arrive in date order *)

\* No bar is younger than today, and a graded row has its trading date.
DatedInv ==
    /\ \A x \in TradingDates : x <= today
    /\ \A d \in Days, b \in Brands :
           answers[d][b].outcome # "null" =>
               answers[d][b].on = NextDates(d) /\ NextDates(d) # {}

LEMMA DatedInit == Init => DatedInv
  BY DEF Init, MarketInit, DatedInv, TradingDates, NoAnswer, FreshAnswer

\* A date that has a next trading date keeps it when the day's bars arrive.
IsNext(T, d, x) == x \in T /\ x > d /\ \A y \in T : y > d => x <= y

LEMMA NextDatesStay ==
    ASSUME NEW T, T \subseteq Int, NEW t \in Int, \A x \in T : x <= t, NEW d \in Int,
           NEW n, IsNext(T, d, n), NEW x
    PROVE  IsNext(T \cup {t}, d, x) <=> x = n
  <1>1. n \in Int /\ n <= t
    BY DEF IsNext
  <1>2. IsNext(T \cup {t}, d, n)
    BY <1>1 DEF IsNext
  <1>3. ASSUME IsNext(T \cup {t}, d, x) PROVE x = n
    <2>1. x \in Int /\ x <= n
      BY <1>1, <1>3 DEF IsNext
    <2>2. n <= x
      BY <1>1, <1>3 DEF IsNext
    <2>3. QED
      BY <1>1, <2>1, <2>2
  <1>4. QED
    BY <1>2, <1>3

LEMMA DatedMarket ==
    ASSUME MarketTypeOK, DatedInv, ~Relists, Lookback = 0, MarketChanges
    PROVE  DatedInv'
  <1>1. /\ today \in Int /\ Days \subseteq Int
        /\ \A x \in TradingDates : x \in Int /\ x <= today
    BY TradingDatesAreDays DEF Days, MarketTypeOK, DatedInv
  <1>2. UNCHANGED answers
    BY DEF MarketChanges, quizVars
  <1>3. CASE NextDay
    <2>1. TradingDates' = TradingDates /\ today' = today + 1
      BY <1>3 DEF NextDay, TradingDates
    <2>2. \A d \in Days : NextDates(d)' = NextDates(d)
      BY <2>1 DEF NextDates
    <2>3. \A x \in TradingDates : x <= today + 1
      BY <1>1
    <2>4. QED
      BY <1>2, <2>1, <2>2, <2>3 DEF DatedInv
  <1>4. CASE Ingestion
    <2>1. PICK e \in Days, S \in SUBSET Brands : IngestDay(e, S)
      BY <1>4 DEF Ingestion
    <2>2. e = today /\ today' = today
      BY <1>1, <2>1 DEF IngestDay
    <2>3. TradingDates' = TradingDates \/ TradingDates' = TradingDates \cup {today}
      <3>1. \A b \in Brands : bars'[b] = bars[b] \/ bars'[b] = bars[b] \cup {today}
        BY <2>1, <2>2 DEF IngestDay
      <3>2. CASE \E b \in Brands : bars'[b] = bars[b] \cup {today}
        <4>1. TradingDates' = TradingDates \cup {today}
          BY <3>1, <3>2 DEF TradingDates
        <4>2. QED
          BY <4>1
      <3>3. CASE \A b \in Brands : bars'[b] = bars[b]
        BY <3>3 DEF TradingDates
      <3>4. QED
        BY <3>1, <3>2, <3>3
    <2>4. ASSUME NEW d \in Days, NextDates(d) # {}
          PROVE  NextDates(d)' = NextDates(d)
      <3>1. NextDates(d) = {x \in TradingDates : IsNext(TradingDates, d, x)}
        BY DEF NextDates, IsNext
      <3>2. NextDates(d)' = {x \in TradingDates' : IsNext(TradingDates', d, x)}
        BY DEF NextDates, IsNext
      <3>3. PICK n \in TradingDates : IsNext(TradingDates, d, n)
        BY <2>4, <3>1
      <3>4. \A x : IsNext(TradingDates, d, x) => x = n
        BY <1>1, <3>3 DEF IsNext
      <3>5. CASE TradingDates' = TradingDates
        BY <3>1, <3>2, <3>5
      <3>6. CASE TradingDates' = TradingDates \cup {today}
        <4>1. TradingDates \subseteq Int /\ d \in Int
          BY <1>1
        <4>2. \A x : IsNext(TradingDates', d, x) <=> x = n
          <5> DEFINE T == TradingDates
          <5>1. T \subseteq Int /\ (\A x \in T : x <= today) /\ IsNext(T, d, n)
            BY <1>1, <3>3, <4>1
          <5>2. today \in Int
            BY <1>1
          <5> HIDE DEF T
          <5>3. \A x : IsNext(T \cup {today}, d, x) <=> x = n
            BY <4>1, <5>1, <5>2, NextDatesStay
          <5>4. QED
            BY <3>6, <5>3 DEF T
        <4>3. QED
          BY <3>1, <3>2, <3>3, <3>4, <3>6, <4>2
      <3>7. QED
        BY <2>3, <3>5, <3>6
    <2>5. \A x \in TradingDates' : x <= today
      BY <1>1, <2>3
    <2>6. QED
      BY <1>2, <2>2, <2>4, <2>5 DEF DatedInv
  <1>5. QED
    BY <1>3, <1>4 DEF MarketChanges

LEMMA DatedStep ==
    ASSUME ~Relists, Lookback = 0, GradesInv, DatedInv, [Next]_vars
    PROVE  DatedInv'
  <1>1. /\ answers \in [Days -> [Brands -> Answers]]
        /\ MarketTypeOK
    BY DEF GradesInv, TypeOK
  <1>2. CASE MarketChanges
    BY <1>1, <1>2, DatedMarket
  <1>3. CASE UNCHANGED <<marketVars, answers>>
    <2>1. TradingDates' = TradingDates /\ today' = today
      BY <1>3 DEF TradingDates, marketVars
    <2>2. \A d \in Days : NextDates(d)' = NextDates(d)
      BY <2>1 DEF NextDates
    <2>3. QED
      BY <1>3, <2>1, <2>2 DEF DatedInv
  <1>4. ASSUME UNCHANGED marketVars,
               \A d \in Days, b \in Brands :
                   \/ answers'[d][b] = answers[d][b]
                   \/ answers'[d][b].outcome = "null"
                   \/ answers'[d][b].on = NextDates(d) /\ NextDates(d) # {}
        PROVE  DatedInv'
    <2>1. TradingDates' = TradingDates /\ today' = today
      BY <1>4 DEF TradingDates, marketVars
    <2>2. \A d \in Days : NextDates(d)' = NextDates(d)
      BY <2>1 DEF NextDates
    <2>3. QED
      BY <1>4, <2>1, <2>2 DEF DatedInv
  <1>5. ASSUME NEW d \in Days, NEW b \in Brands, NEW prediction \in Predictions,
               SubmitAnswer(d, b, prediction)
        PROVE  DatedInv'
    <2>1. /\ answers' = [answers EXCEPT ![d][b] = FreshAnswer(prediction)]
          /\ FreshAnswer(prediction).outcome = "null"
          /\ UNCHANGED marketVars
      BY <1>5 DEF SubmitAnswer, FreshAnswer
    <2>2. \A x \in Days, y \in Brands :
              answers'[x][y] = answers[x][y] \/ answers'[x][y].outcome = "null"
      BY <1>1, <2>1
    <2>3. QED
      BY <1>4, <2>1, <2>2
  <1>6. ASSUME NEW g \in Graders, CommitGrade(g)
        PROVE  DatedInv'
    <2>1. PICK move \in [Brands -> Moves] :
              answers' = [d \in Days |-> [b \in Brands |->
                  IF b \in Gradable(g, d)
                  THEN Graded(answers[d][b], d, b, move[b])
                  ELSE answers[d][b]]]
      BY <1>6 DEF CommitGrade
    <2>2. \A d \in Days, b \in Brands : Graded(answers[d][b], d, b, move[b]).on = NextDates(d)
      <3>1. ASSUME NEW a \in Answers, NEW d \in Days, NEW b \in Brands, NEW x
            PROVE  Graded(a, d, b, x).on = NextDates(d)
        BY DEF Graded, Answers
      <3>2. QED
        BY <1>1, <3>1
    <2>3. UNCHANGED marketVars
      BY <1>6 DEF CommitGrade
    <2>4. \A d \in Days, b \in Brands :
              \/ answers'[d][b] = answers[d][b]
              \/ answers'[d][b].on = NextDates(d) /\ NextDates(d) # {}
      BY <2>1, <2>2 DEF Gradable
    <2>5. QED
      BY <1>4, <2>3, <2>4
  <1>7. QED
    BY <1>2, <1>3, <1>5, <1>6
       DEF Next, Grading, MakeUniverse, BeginUniverse, CheckUniverse, SelectUniverse,
           InsertUniverse, MakerDies, BeginGrade, GradePanics, GraderDies,
           RecordCorporateAction, vars, marketVars

\* When bars arrive in date order and no brand is delisted, a graded answer was
\* graded against the first trading day after its quiz date, however late the
\* grader runs and however many overlap (FindNextTradingDate).
THEOREM GradedNextDay ==
    ASSUME ~Relists, Lookback = 0
    PROVE  Spec => []GradedOnNextDay
  <1>1. GradesInv /\ DatedInv /\ [Next]_vars => DatedInv'
    BY DatedStep
  <1>2. DatedInv => GradedOnNextDay
    BY DEF DatedInv, GradedOnNextDay, Answered
  <1>3. QED
    BY <1>1, <1>2, DatedInit, GradesAlways, PTL DEF Spec
=============================================================================
