-------------------------- MODULE DailyPicksProofs --------------------------
(***************************************************************************)
(* Proofs about DailyPicks and PickStats, for every number of brands, days *)
(* and processes and whatever the bounds: that the rows take the steps of  *)
(* PickLedger; that without --force a list stays as it is and, once all of *)
(* it is marked, is not posted again; that what the API has shown of a day *)
(* stays; that returns start from the bar of the pick date; and that the   *)
(* figures of the statistics fit together.                                 *)
(***************************************************************************)
EXTENDS PickStats, FoldProofs

-----------------------------------------------------------------------------
(* Lemmas about the price table *)

\* The bars of a range query are finitely many dates.
LEMMA PricesAreFinite ==
    ASSUME NEW P, P \subseteq Days
    PROVE  IsFiniteSet(P) /\ Cardinality(P) \in Nat
  <1>1. IsFiniteSet(Days)
    BY MaxDayAssumption, FS_Interval DEF Days
  <1>2. IsFiniteSet(P)
    BY <1>1, FS_Subset
  <1>3. QED
    BY <1>2, FS_CardinalityType

LEMMA MarketTypeInit == MarketInit => MarketTypeOK
  BY MaxDayAssumption DEF MarketInit, MarketTypeOK, Days

\* The three writers of the market keep its types.
LEMMA MarketTypePreserved ==
    ASSUME MarketTypeOK, Ingestion \/ Relisting \/ NextDay
    PROVE  MarketTypeOK'
  <1>1. CASE Ingestion
    <2>1. PICK d \in Days, S \in SUBSET Brands : IngestDay(d, S)
      BY <1>1 DEF Ingestion
    <2>2. QED
      BY <2>1 DEF IngestDay, MarketTypeOK
  <1>2. CASE Relisting
    <2>1. PICK L \in SUBSET Brands : UpdateStockBrands(L)
      BY <1>2 DEF Relisting
    <2>2. QED
      BY <2>1 DEF UpdateStockBrands, MarketTypeOK
  <1>3. CASE NextDay
    BY <1>3, MaxDayAssumption DEF NextDay, MarketTypeOK, Days
  <1>4. QED
    BY <1>1, <1>2, <1>3

\* A date that some bar makes a trading date is a day of the calendar.
LEMMA TradingDatesAreDays ==
    ASSUME MarketTypeOK
    PROVE  TradingDates \subseteq Days
  BY DEF MarketTypeOK, TradingDates

-----------------------------------------------------------------------------
(* Lemmas about the operators *)

\* When the deciding horizon is reached, all horizons are.
LEMMA ReachedAll ==
    ASSUME NEW P, P \subseteq Days, LastHorizon \in Reached(P)
    PROVE  Reached(P) = Horizons
  <1>1. Cardinality(P) \in Nat
    BY PricesAreFinite
  <1>2. LastHorizon < Cardinality(P) /\ LastHorizon \in Nat
    BY HorizonsAssumption DEF Reached
  <1>3. ASSUME NEW h \in Horizons
        PROVE  h < Cardinality(P)
    <2>1. h \in Nat /\ h <= LastHorizon
      BY HorizonsAssumption
    <2>2. QED
      BY <1>1, <1>2, <2>1
  <1>4. QED
    BY <1>3 DEF Reached

LEMMA FreshRowType ==
    ASSUME NEW n \in Nat
    PROVE  /\ FreshRow(n) \in Rows
           /\ FreshRow(n).rank = n
           /\ FreshRow(n).outcome = "null"
           /\ ~FreshRow(n).evaluated
           /\ ~FreshRow(n).notified
           /\ FreshRow(n).gain = NotYet
  BY DEF FreshRow, Rows, Outcomes, Judged, NotYet

LEMMA JudgeType ==
    ASSUME NEW gain \in Moves
    PROVE  /\ Judge(gain) \in Judged
           /\ gain \in {-1, 0, 1} /\ gain # NotYet
  BY MovesAssumption DEF Judge, Judged, NotYet

\* An outcome and its evaluated_at are set together.  A win, lose or draw has
\* all its returns, and agrees with the deciding one; a row without an outcome
\* has no deciding return.
SoundRow(r) ==
    /\ r.evaluated <=> r.outcome # "null"
    /\ ~r.evaluated => r.gain = NotYet
    /\ r.outcome \in Judged => /\ r.filled = Horizons
                               /\ r.gain # NotYet
                               /\ r.outcome = Judge(r.gain)

Undecided(r) == ~r.evaluated /\ r.outcome = "null" /\ r.gain = NotYet

LEMMA FreshRowSound ==
    ASSUME NEW n \in Nat
    PROVE  SoundRow(FreshRow(n)) /\ Undecided(FreshRow(n))
  BY FreshRowType DEF SoundRow, Undecided, Judged

LEMMA SettleType ==
    ASSUME NEW r \in Rows, NEW o \in Outcomes
    PROVE  /\ Settle(r, o) \in Rows
           /\ Settle(r, o).rank = r.rank
           /\ Settle(r, o).filled = r.filled
           /\ Settle(r, o).gain = r.gain
           /\ Settle(r, o).notified = r.notified
           /\ Settle(r, o).outcome = o
           /\ Settle(r, o).evaluated
  BY DEF Settle, Rows

\* What one evaluation makes of the copy of a pending row.
LEMMA EvaluateSound ==
    ASSUME NEW r \in Rows, Undecided(r),
           NEW b \in Brands, NEW d \in Days, NEW now \in Days,
           NEW gain \in Moves, bars \in [Brands -> SUBSET Days]
    PROVE  /\ Evaluate(r, b, d, now, gain) \in Rows
           /\ SoundRow(Evaluate(r, b, d, now, gain))
           /\ Evaluate(r, b, d, now, gain).rank = r.rank
           /\ Evaluate(r, b, d, now, gain).notified = r.notified
  <1> DEFINE P == PricesFrom(b, d, now)
             partial == [r EXCEPT !.filled = Reached(P), !.based = (d \in P)]
             full == [partial EXCEPT !.gain = gain]
             u == Evaluate(r, b, d, now, gain)
  <1> HIDE DEF P
  <1>1. P \subseteq Days /\ Reached(P) \subseteq Horizons
    BY DEF P, PricesFrom, Reached
  <1>2. /\ partial \in Rows
        /\ partial.rank = r.rank
        /\ partial.notified = r.notified
        /\ partial.filled = Reached(P)
        /\ Undecided(partial)
    <2>1. (d \in P) \in BOOLEAN
      OBVIOUS
    <2> DEFINE base == d \in P
    <2> HIDE DEF base
    <2>2. base \in BOOLEAN
      BY <2>1 DEF base
    <2>3. [r EXCEPT !.filled = Reached(P), !.based = base] \in Rows
      BY <1>1, <2>2 DEF Rows
    <2>4. partial \in Rows
      BY <2>3 DEF base
    <2>5. QED
      BY <2>4, <1>1 DEF Rows, Undecided
  <1>3. /\ full \in Rows
        /\ full.rank = r.rank
        /\ full.notified = r.notified
        /\ full.filled = Reached(P)
        /\ full.gain = gain
    <2>1. gain \in {-1, 0, 1, NotYet}
      BY JudgeType
    <2>2. QED
      BY <1>2, <2>1 DEF Rows
  <1>4. "void" \in Outcomes /\ "void" \notin Judged /\ "null" \notin Judged
    BY DEF Outcomes, Judged
  <1>5. Judge(gain) \in Judged /\ Judge(gain) \in Outcomes /\ gain # NotYet
    BY JudgeType DEF Outcomes
  <1>6. CASE ~BaseFound(b, P)
    <2>1. u = Settle(r, "void")
      BY <1>6 DEF Evaluate, P
    <2>2. QED
      BY <2>1, <1>4, SettleType DEF SoundRow
  <1> HIDE DEF partial, full, u
  <1>7. CASE BaseFound(b, P) /\ LastHorizon \notin Reached(P) /\ Expired(d, now)
    <2>1. u = Settle(partial, "void")
      BY <1>7 DEF Evaluate, P, partial, u
    <2>2. QED
      BY <2>1, <1>2, <1>4, SettleType DEF SoundRow, u
  <1>8. CASE BaseFound(b, P) /\ LastHorizon \notin Reached(P) /\ ~Expired(d, now)
    <2>1. u = partial
      BY <1>8 DEF Evaluate, P, partial, u
    <2>2. QED
      BY <2>1, <1>2, <1>4 DEF SoundRow, Undecided, u
  <1>9. CASE BaseFound(b, P) /\ LastHorizon \in Reached(P) /\ HasCorporateAction(b, P)
    <2>1. u = Settle(full, "void")
      BY <1>9 DEF Evaluate, P, partial, full, u
    <2>2. QED
      BY <2>1, <1>3, <1>4, SettleType DEF SoundRow, u
  <1>10. CASE BaseFound(b, P) /\ LastHorizon \in Reached(P) /\ ~HasCorporateAction(b, P)
    <2>1. u = Settle(full, Judge(gain))
      BY <1>10 DEF Evaluate, P, partial, full, u
    <2>2. Reached(P) = Horizons
      BY <1>1, <1>10, ReachedAll
    <2>3. QED
      BY <2>1, <2>2, <1>3, <1>4, <1>5, SettleType DEF SoundRow, u
  <1>11. QED
    BY <1>6, <1>7, <1>8, <1>9, <1>10

\* Writing the result of one evaluation over a row, whoever wrote the row since
\* the copy was taken.
LEMMA OverwriteSound ==
    ASSUME NEW row \in Rows, SoundRow(row), NEW u \in Rows, SoundRow(u)
    PROVE  Overwrite(row, u) \in Rows /\ SoundRow(Overwrite(row, u))
  <1>1. CASE row.rank = 0
    BY <1>1 DEF Overwrite
  <1>2. CASE row.rank # 0
    <2> DEFINE w == Overwrite(row, u)
    <2>1. /\ w \in Rows
          /\ w.filled = row.filled \cup u.filled
          /\ w.gain = IF u.gain = NotYet THEN row.gain ELSE u.gain
          /\ w.outcome = IF u.outcome = "null" THEN row.outcome ELSE u.outcome
          /\ w.evaluated <=> row.evaluated \/ u.evaluated
      BY <1>2 DEF Overwrite, Rows
    <2>2. /\ row.filled \subseteq Horizons /\ u.filled \subseteq Horizons
          /\ row.evaluated \in BOOLEAN /\ u.evaluated \in BOOLEAN
      BY DEF Rows
    <2> HIDE DEF w
    <2>3. ASSUME u.outcome = "null"
          PROVE  SoundRow(w)
      <3>1. ~u.evaluated /\ u.gain = NotYet
        BY <2>3 DEF SoundRow
      <3>2. /\ w.outcome = row.outcome
            /\ w.evaluated <=> row.evaluated
            /\ w.gain = row.gain
        BY <2>1, <2>3, <3>1
      <3>3. row.filled = Horizons => w.filled = Horizons
        BY <2>1, <2>2
      <3>4. QED
        BY <3>2, <3>3 DEF SoundRow
    <2>4. ASSUME u.outcome # "null"
          PROVE  SoundRow(w)
      <3>1. u.evaluated
        BY <2>4 DEF SoundRow
      <3>2. w.outcome = u.outcome /\ w.evaluated
        BY <2>1, <2>4, <3>1
      <3>3. u.outcome \in Judged => /\ w.filled = Horizons
                                    /\ w.gain = u.gain
                                    /\ u.gain # NotYet
                                    /\ u.outcome = Judge(u.gain)
        BY <2>1, <2>2 DEF SoundRow
      <3>4. QED
        BY <2>4, <3>2, <3>3 DEF SoundRow
    <2>5. QED
      BY <2>1, <2>3, <2>4 DEF w
  <1>3. QED
    BY <1>1, <1>2

-----------------------------------------------------------------------------
(* Type correctness, and the soundness of settled rows *)

CreatorMemory ==
    [pc : Steps, date : Days, from : Days, ranks : [Brands -> Nat],
     unsent : SUBSET Brands]
EvaluatorMemory ==
    [pc : {"idle", "evaluate"}, now : Days, pending : [Days -> SUBSET Brands],
     copy : [Days -> [Brands -> Rows]]]

RowsAreSound == \A d \in Days, b \in Brands : SoundRow(picks[d][b])
CopiesAreUndecided ==
    \A e \in Evaluators, d \in Days, b \in Brands :
        Undecided(evaluator[e].copy[d][b])

\* The inductive invariant.  What an evaluation writes is sound only because
\* its copies were undecided when they were taken; what it overwrites need not
\* be the row it copied.
SettledInv == TypeOK /\ RowsAreSound /\ CopiesAreUndecided

LEMMA IdleTypes ==
    /\ IdleCreator \in CreatorMemory
    /\ IdleEvaluator \in EvaluatorMemory
    /\ \A d \in Days, b \in Brands : Undecided(IdleEvaluator.copy[d][b])
    /\ NoRanks \in [Brands -> Nat]
    /\ NoRow \in Rows /\ SoundRow(NoRow) /\ Undecided(NoRow)
  <1>1. 0 \in Days
    BY MaxDayAssumption DEF Days
  <1>2. NoRanks \in [Brands -> Nat]
    BY DEF NoRanks
  <1>3. NoRow \in Rows /\ SoundRow(NoRow) /\ Undecided(NoRow)
    BY FreshRowType, FreshRowSound DEF NoRow
  <1>4. IdleCreator \in CreatorMemory
    BY <1>1, <1>2 DEF IdleCreator, CreatorMemory, Steps
  <1>5. IdleEvaluator \in EvaluatorMemory
    BY <1>1, <1>3 DEF IdleEvaluator, EvaluatorMemory
  <1>6. ASSUME NEW d \in Days, NEW b \in Brands
        PROVE  Undecided(IdleEvaluator.copy[d][b])
    BY <1>3 DEF IdleEvaluator
  <1>7. QED
    BY <1>2, <1>3, <1>4, <1>5, <1>6

LEMMA SettledInit == Init => SettledInv
  <1> SUFFICES ASSUME Init PROVE SettledInv
    OBVIOUS
  <1>1. MarketTypeOK
    BY MarketTypeInit DEF Init
  <1>2. /\ picks \in [Days -> [Brands -> Rows]]
        /\ creator \in [Creators -> CreatorMemory]
        /\ evaluator \in [Evaluators -> EvaluatorMemory]
        /\ acted \in SUBSET (Brands \X Days)
        /\ sent \in [Days -> SUBSET Brands]
        /\ lastEval \in Days \cup {-1}
    BY IdleTypes DEF Init
  <1>3. faults \in 0 .. MaxFaults
    BY SizesAssumption DEF Init
  <1>4. RowsAreSound /\ CopiesAreUndecided
    BY IdleTypes DEF Init, RowsAreSound, CopiesAreUndecided
  <1>5. QED
    BY <1>1, <1>2, <1>3, <1>4
       DEF SettledInv, TypeOK, CreatorMemory, EvaluatorMemory

\* Steps of a create process that leave the table alone.
LEMMA CreatorStepInv ==
    ASSUME SettledInv, NEW p \in Creators, NEW c \in CreatorMemory,
           creator' = [creator EXCEPT ![p] = c],
           sent' \in [Days -> SUBSET Brands], faults' \in 0 .. MaxFaults,
           UNCHANGED <<marketVars, picks, acted, evaluator, lastEval>>
    PROVE  SettledInv'
  BY DEF SettledInv, TypeOK, MarketTypeOK, marketVars, CreatorMemory,
         RowsAreSound, CopiesAreUndecided

\* Steps that only write rows, each of them sound, and move one process on.
LEMMA WriteStepInv ==
    ASSUME SettledInv,
           picks' \in [Days -> [Brands -> Rows]], RowsAreSound',
           creator' \in [Creators -> CreatorMemory],
           evaluator' \in [Evaluators -> EvaluatorMemory], CopiesAreUndecided',
           lastEval' \in Days \cup {-1},
           UNCHANGED <<marketVars, acted, sent, faults>>
    PROVE  SettledInv'
  BY DEF SettledInv, TypeOK, MarketTypeOK, marketVars, CreatorMemory,
         EvaluatorMemory

LEMMA CreateKeepsInv ==
    ASSUME SettledInv, NEW p \in Creators, Create(p) \/ SlackFails(p) \/ CreatorDies(p)
    PROVE  SettledInv'
  <1> DEFINE c == creator[p]
  <1>1. /\ creator \in [Creators -> CreatorMemory]
        /\ c \in CreatorMemory
        /\ picks \in [Days -> [Brands -> Rows]]
        /\ bars \in [Brands -> SUBSET Days]
        /\ sent \in [Days -> SUBSET Brands]
        /\ faults \in 0 .. MaxFaults
    BY DEF SettledInv, TypeOK, MarketTypeOK, CreatorMemory
  <1>2. /\ c.pc \in Steps /\ c.date \in Days /\ c.from \in Days
        /\ c.ranks \in [Brands -> Nat] /\ c.unsent \in SUBSET Brands
    BY <1>1 DEF CreatorMemory
  <1>3. \A d \in Days, b \in Brands : picks[d][b] \in Rows /\ picks[d][b].rank \in Nat
    BY <1>1 DEF Rows
  <1>4. ASSUME NEW force \in ForceFlags, BeginCreate(p, force)
        PROVE  SettledInv'
    <2>1. PICK date \in TradingDates, from \in RecentDates(WarmUp) :
              creator' = [creator EXCEPT ![p] =
                 [IdleCreator EXCEPT !.pc = IF force THEN "screen" ELSE "check",
                                     !.date = date,
                                     !.from = from]]
      BY <1>4 DEF BeginCreate
    <2>2. date \in Days /\ from \in Days
      BY <1>1 DEF TradingDates, RecentDates
    <2>3. [IdleCreator EXCEPT !.pc = IF force THEN "screen" ELSE "check",
                              !.date = date,
                              !.from = from] \in CreatorMemory
      BY <2>2, IdleTypes DEF CreatorMemory, Steps
    <2>4. QED
      BY <1>1, <1>4, <2>1, <2>3, CreatorStepInv DEF BeginCreate
  <1>5. CASE CheckExisting(p)
    <2> DEFINE m == IF Picked(c.date) = {} THEN [c EXCEPT !.pc = "screen"]
                    ELSE IF AllNotified(c.date) THEN IdleCreator
                    ELSE [c EXCEPT !.pc = "send",
                             !.ranks = [b \in Brands |-> picks[c.date][b].rank],
                             !.unsent = Picked(c.date)]
    <2>1. [b \in Brands |-> picks[c.date][b].rank] \in [Brands -> Nat]
      BY <1>2, <1>3
    <2>2. Picked(c.date) \in SUBSET Brands
      BY DEF Picked
    <2>3. m \in CreatorMemory
      BY <1>1, <1>2, <2>1, <2>2, IdleTypes DEF CreatorMemory, Steps
    <2>4. creator' = [creator EXCEPT ![p] = m]
      BY <1>1, <1>5 DEF CheckExisting
    <2> HIDE DEF m
    <2>5. QED
      BY <1>1, <1>5, <2>3, <2>4, CreatorStepInv DEF CheckExisting
  <1>6. CASE Screen(p)
    <2>1. PICK r \in Rankings(Candidates(c.from, c.date)) :
              creator' = [creator EXCEPT ![p] =
                 IF r = NoRanks THEN IdleCreator
                 ELSE [c EXCEPT !.pc = "save", !.ranks = r]]
      BY <1>1, <1>6 DEF Screen
    <2>2. r \in [Brands -> Nat]
      <3>1. IsFiniteSet(Candidates(c.from, c.date))
        <4>1. listed \subseteq Brands
          BY DEF SettledInv, TypeOK, MarketTypeOK
        <4>2. Candidates(c.from, c.date) \subseteq Brands
          BY <4>1 DEF Candidates
        <4>3. QED
          BY <4>2, BrandsAssumption, FS_Subset
      <3>2. Cardinality(Candidates(c.from, c.date)) \in Nat
        BY <3>1, FS_CardinalityType
      <3>3. 0 .. Cardinality(Candidates(c.from, c.date)) \subseteq Nat
        BY <3>2
      <3>4. r \in [Brands -> 0 .. Cardinality(Candidates(c.from, c.date))]
        BY <2>1 DEF Rankings
      <3>5. QED
        BY <3>3, <3>4
    <2> DEFINE m == IF r = NoRanks THEN IdleCreator
                    ELSE [c EXCEPT !.pc = "save", !.ranks = r]
    <2>3. m \in CreatorMemory
      BY <1>1, <2>2, IdleTypes DEF CreatorMemory, Steps
    <2>4. creator' = [creator EXCEPT ![p] = m]
      BY <2>1
    <2> HIDE DEF m
    <2>5. QED
      BY <1>1, <1>6, <2>3, <2>4, CreatorStepInv DEF Screen
  <1>7. CASE SavePicks(p)
    <2>1. picks' = [picks EXCEPT ![c.date] = [b \in Brands |-> FreshRow(c.ranks[b])]]
      BY <1>7 DEF SavePicks
    <2>2. \A b \in Brands : /\ FreshRow(c.ranks[b]) \in Rows
                            /\ SoundRow(FreshRow(c.ranks[b]))
      BY <1>2, FreshRowType, FreshRowSound
    <2>3. picks' \in [Days -> [Brands -> Rows]]
      BY <1>1, <2>1, <2>2
    <2>4. RowsAreSound'
      BY <1>1, <1>2, <2>1, <2>2 DEF SettledInv, RowsAreSound
    <2>5. creator' \in [Creators -> CreatorMemory]
      BY <1>1, <1>2, <1>7 DEF SavePicks, CreatorMemory, Steps
    <2>6. QED
      BY <1>7, <2>3, <2>4, <2>5, WriteStepInv
         DEF SavePicks, SettledInv, TypeOK, EvaluatorMemory, CopiesAreUndecided
  <1>8. CASE SendBody(p)
    <2>1. PICK B \in Bodies(c) :
              /\ sent' = [sent EXCEPT ![c.date] = @ \cup B]
              /\ creator' = [creator EXCEPT
                               ![p].unsent = @ \ B,
                               ![p].pc = IF c.unsent = B THEN "mark" ELSE "send"]
      BY <1>8 DEF SendBody
    <2>2. B \subseteq Brands
      BY <1>2, <2>1 DEF Bodies
    <2> DEFINE m == [c EXCEPT !.unsent = @ \ B,
                              !.pc = IF c.unsent = B THEN "mark" ELSE "send"]
    <2>3. m \in CreatorMemory
      BY <1>1, <1>2 DEF CreatorMemory, Steps
    <2>4. creator' = [creator EXCEPT ![p] = m]
      BY <1>1, <2>1
    <2>5. sent' \in [Days -> SUBSET Brands]
      BY <1>1, <1>2, <2>1, <2>2
    <2> HIDE DEF m
    <2>6. QED
      BY <1>1, <1>8, <2>3, <2>4, <2>5, CreatorStepInv DEF SendBody
  <1>9. CASE MarkNotified(p)
    <2> DEFINE row(b) == IF b \in Picked(c.date)
                         THEN [picks[c.date][b] EXCEPT !.notified = TRUE]
                         ELSE picks[c.date][b]
    <2>1. picks' = [picks EXCEPT ![c.date] = [b \in Brands |-> row(b)]]
      BY <1>9 DEF MarkNotified
    <2>2. ASSUME NEW b \in Brands
          PROVE  row(b) \in Rows /\ SoundRow(row(b))
      <3>1. picks[c.date][b] \in Rows /\ SoundRow(picks[c.date][b])
        BY <1>1, <1>2 DEF SettledInv, RowsAreSound
      <3>2. QED
        BY <3>1 DEF Rows, SoundRow
    <2> HIDE DEF row
    <2>3. picks' \in [Days -> [Brands -> Rows]]
      BY <1>1, <2>1, <2>2
    <2>4. RowsAreSound'
      BY <1>1, <1>2, <2>1, <2>2 DEF SettledInv, RowsAreSound
    <2>5. creator' \in [Creators -> CreatorMemory]
      BY <1>1, <1>9, IdleTypes DEF MarkNotified
    <2>6. QED
      BY <1>9, <2>3, <2>4, <2>5, WriteStepInv
         DEF MarkNotified, SettledInv, TypeOK, EvaluatorMemory, CopiesAreUndecided
  <1>10. CASE SlackFails(p)
    <2>1. PICK B \in Bodies(c) \cup {{}} :
              sent' = [sent EXCEPT ![c.date] = @ \cup B]
      BY <1>10 DEF SlackFails
    <2>2. B \subseteq Brands
      BY <1>2, <2>1 DEF Bodies
    <2>3. sent' \in [Days -> SUBSET Brands]
      BY <1>1, <1>2, <2>1, <2>2
    <2>4. faults' \in 0 .. MaxFaults
      BY <1>1, <1>10, SizesAssumption DEF SlackFails
    <2>5. QED
      BY <1>10, <2>3, <2>4, IdleTypes, CreatorStepInv DEF SlackFails
  <1>11. CASE CreatorDies(p)
    <2>1. faults' \in 0 .. MaxFaults
      BY <1>1, <1>11, SizesAssumption DEF CreatorDies
    <2>2. QED
      BY <1>1, <1>11, <2>1, IdleTypes, CreatorStepInv DEF CreatorDies
  <1>12. QED
    BY <1>4, <1>5, <1>6, <1>7, <1>8, <1>9, <1>10, <1>11 DEF Create

LEMMA EvaluatorKeepsInv ==
    ASSUME SettledInv, NEW e \in Evaluators,
           BeginEvaluate(e) \/ CommitEvaluate(e) \/ EvaluatorDies(e)
    PROVE  SettledInv'
  <1> DEFINE v == evaluator[e]
  <1>1. /\ evaluator \in [Evaluators -> EvaluatorMemory]
        /\ v \in EvaluatorMemory
        /\ creator \in [Creators -> CreatorMemory]
        /\ picks \in [Days -> [Brands -> Rows]]
        /\ bars \in [Brands -> SUBSET Days]
        /\ today \in Days
        /\ lastEval \in Days \cup {-1}
    BY DEF SettledInv, TypeOK, MarketTypeOK, EvaluatorMemory, CreatorMemory
  <1>2. CASE BeginEvaluate(e)
    <2>1. CASE \A d \in Days : PendingSince(today, d) = {}
      BY <1>1, <1>2, <2>1
         DEF BeginEvaluate, SettledInv, TypeOK, MarketTypeOK, marketVars,
             RowsAreSound, CopiesAreUndecided
    <2>2. CASE ~ \A d \in Days : PendingSince(today, d) = {}
      <3> DEFINE row(d, b) == IF b \in PendingSince(today, d)
                              THEN picks[d][b] ELSE NoRow
                 copy == [d \in Days |-> [b \in Brands |-> row(d, b)]]
                 pending == [d \in Days |-> PendingSince(today, d)]
                 m == [pc |-> "evaluate", now |-> today,
                       pending |-> pending, copy |-> copy]
      <3>1. evaluator' = [evaluator EXCEPT ![e] = m]
        BY <1>2, <2>2 DEF BeginEvaluate
      <3>2. ASSUME NEW d \in Days, NEW b \in Brands
            PROVE  row(d, b) \in Rows /\ Undecided(row(d, b))
        <4>1. CASE b \in PendingSince(today, d)
          <5>1. Pending(d, b)
            BY <4>1 DEF PendingSince
          <5>2. picks[d][b] \in Rows /\ SoundRow(picks[d][b]) /\ ~picks[d][b].evaluated
            BY <1>1, <5>1 DEF SettledInv, RowsAreSound, Pending
          <5>3. Undecided(picks[d][b])
            BY <5>2 DEF SoundRow, Undecided
          <5>4. QED
            BY <4>1, <5>2, <5>3
        <4>2. CASE b \notin PendingSince(today, d)
          BY <4>2, IdleTypes
        <4>3. QED
          BY <4>1, <4>2
      <3> HIDE DEF row
      <3>3. pending \in [Days -> SUBSET Brands]
        BY DEF PendingSince
      <3>4. m \in EvaluatorMemory
        BY <1>1, <3>2, <3>3 DEF EvaluatorMemory
      <3>5. evaluator' \in [Evaluators -> EvaluatorMemory]
        BY <1>1, <3>1, <3>4
      <3>6. CopiesAreUndecided'
        BY <1>1, <3>1, <3>2 DEF SettledInv, CopiesAreUndecided
      <3>7. UNCHANGED <<marketVars, picks, acted, creator, sent, lastEval, faults>>
        BY <1>2, <2>2 DEF BeginEvaluate
      <3>8. RowsAreSound'
        BY <3>7 DEF SettledInv, RowsAreSound
      <3>9. QED
        BY <1>1, <3>5, <3>6, <3>7, <3>8, WriteStepInv
    <2>3. QED
      BY <2>1, <2>2
  <1>3. CASE CommitEvaluate(e)
    <2>1. PICK gain \in [Brands -> Moves] :
              picks' = [d \in Days |-> [b \in Brands |->
                  IF b \in v.pending[d] /\ HasUpdate(b, d, v.now)
                  THEN Overwrite(picks[d][b],
                                 Evaluate(v.copy[d][b], b, d, v.now, gain[b]))
                  ELSE picks[d][b]]]
      BY <1>3 DEF CommitEvaluate
    <2> DEFINE row(d, b) == IF b \in v.pending[d] /\ HasUpdate(b, d, v.now)
                  THEN Overwrite(picks[d][b],
                                 Evaluate(v.copy[d][b], b, d, v.now, gain[b]))
                  ELSE picks[d][b]
    <2>2. ASSUME NEW d \in Days, NEW b \in Brands
          PROVE  row(d, b) \in Rows /\ SoundRow(row(d, b))
      <3>1. picks[d][b] \in Rows /\ SoundRow(picks[d][b])
        BY <1>1 DEF SettledInv, RowsAreSound
      <3>2. v.copy[d][b] \in Rows /\ Undecided(v.copy[d][b]) /\ v.now \in Days
        BY <1>1 DEF SettledInv, CopiesAreUndecided, EvaluatorMemory
      <3>3. gain[b] \in Moves
        OBVIOUS
      <3>4. /\ Evaluate(v.copy[d][b], b, d, v.now, gain[b]) \in Rows
            /\ SoundRow(Evaluate(v.copy[d][b], b, d, v.now, gain[b]))
        BY <1>1, <3>2, <3>3, EvaluateSound
      <3>5. QED
        BY <3>1, <3>4, OverwriteSound
    <2>3. picks' = [d \in Days |-> [b \in Brands |-> row(d, b)]]
      BY <2>1
    <2> HIDE DEF row
    <2>4. picks' \in [Days -> [Brands -> Rows]] /\ RowsAreSound'
      BY <2>2, <2>3 DEF RowsAreSound
    <2>5. evaluator' = [evaluator EXCEPT ![e] = IdleEvaluator] /\ lastEval' = v.now
      BY <1>3 DEF CommitEvaluate
    <2>6. /\ evaluator' \in [Evaluators -> EvaluatorMemory]
          /\ CopiesAreUndecided'
      BY <1>1, <2>5, IdleTypes DEF SettledInv, CopiesAreUndecided
    <2>7. lastEval' \in Days \cup {-1}
      BY <1>1, <2>5 DEF EvaluatorMemory
    <2>8. UNCHANGED <<marketVars, acted, creator, sent, faults>>
      BY <1>3 DEF CommitEvaluate
    <2>9. QED
      BY <1>1, <2>4, <2>6, <2>7, <2>8, WriteStepInv
  <1>4. CASE EvaluatorDies(e)
    <2>1. /\ evaluator' \in [Evaluators -> EvaluatorMemory]
          /\ CopiesAreUndecided'
      BY <1>1, <1>4, IdleTypes DEF EvaluatorDies, SettledInv, CopiesAreUndecided
    <2>2. faults' \in 0 .. MaxFaults
      BY <1>4, SizesAssumption DEF EvaluatorDies, SettledInv, TypeOK
    <2>3. QED
      BY <1>4, <2>1, <2>2
         DEF EvaluatorDies, SettledInv, TypeOK, MarketTypeOK, marketVars,
             EvaluatorMemory, RowsAreSound
  <1>5. QED
    BY <1>2, <1>3, <1>4

LEMMA SettledStep == SettledInv /\ [Next]_vars => SettledInv'
  <1> SUFFICES ASSUME SettledInv, [Next]_vars PROVE SettledInv'
    OBVIOUS
  <1>1. CASE \E p \in Creators : Create(p) \/ SlackFails(p) \/ CreatorDies(p)
    BY <1>1, CreateKeepsInv
  <1>2. CASE \E e \in Evaluators :
                 BeginEvaluate(e) \/ CommitEvaluate(e) \/ EvaluatorDies(e)
    BY <1>2, EvaluatorKeepsInv
  <1>3. CASE \E b \in Brands, d \in Days : RecordCorporateAction(b, d)
    BY <1>3 DEF RecordCorporateAction, SettledInv, TypeOK, MarketTypeOK,
                marketVars, RowsAreSound, CopiesAreUndecided
  <1>4. CASE MarketChanges \/ DayPasses
    <2>1. MarketTypeOK'
      BY <1>4, MarketTypePreserved
         DEF MarketChanges, DayPasses, SettledInv, TypeOK
    <2>2. UNCHANGED pickVars
      BY <1>4 DEF MarketChanges, DayPasses
    <2>3. QED
      BY <2>1, <2>2 DEF pickVars, SettledInv, TypeOK, RowsAreSound,
                        CopiesAreUndecided
  <1>5. CASE UNCHANGED vars
    BY <1>5 DEF vars, SettledInv, TypeOK, MarketTypeOK, RowsAreSound,
                CopiesAreUndecided
  <1>6. QED
    BY <1>1, <1>2, <1>3, <1>4, <1>5 DEF Next

LEMMA SettledAlways == Spec => []SettledInv
  BY SettledInit, SettledStep, PTL DEF Spec

\* Every variable keeps its type, whatever the interleaving of the two commands
\* with the price batch, crashes and --force.
THEOREM TypeCorrect == Spec => []TypeOK
  <1>1. SettledInv => TypeOK
    BY DEF SettledInv
  <1>2. QED
    BY <1>1, SettledAlways, PTL

\* Any number of concurrent evaluations, writing back copies of rows that may
\* have been judged or replaced since, leave no judged row without its returns
\* and no outcome that contradicts them.
THEOREM SettledSound == Spec => []SettledRowsAreSound
  <1>1. SettledInv => SettledRowsAreSound
    BY DEF SettledInv, RowsAreSound, SoundRow, SettledRowsAreSound, Picked
  <1>2. QED
    BY <1>1, SettledAlways, PTL

-----------------------------------------------------------------------------
(* Notified picks were sent, when create processes do not overlap *)

CopiesWereSent ==
    \A e \in Evaluators, d \in Days, b \in Brands :
        evaluator[e].copy[d][b].notified => b \in sent[d]

\* A process that is posting a list has posted what it no longer holds.
PostedSoFar(c) ==
    /\ c.pc \in {"send", "mark"} => Picked(c.date) \ c.unsent \subseteq sent[c.date]
    /\ c.pc = "mark" => c.unsent = {}

\* MarkNotified stamps rows by date; that these are the rows just posted holds
\* because nobody else publishes the date in between.  Copies need their own
\* conjunct: an evaluation may write notified_at over a replaced row.
SentInv ==
    /\ NotifiedWereSent
    /\ CopiesWereSent
    /\ \A p \in Creators : PostedSoFar(creator[p])

LEMMA SentInit == Init => SentInv
  BY FreshRowType
     DEF Init, SentInv, NotifiedWereSent, CopiesWereSent, PostedSoFar, Picked,
         IdleEvaluator, IdleCreator, NoRow

\* The same of a next memory c, when the step writes no row.
WillHavePosted(c) ==
    /\ c.pc \in {"send", "mark"} => Picked(c.date) \ c.unsent \subseteq sent'[c.date]
    /\ c.pc = "mark" => c.unsent = {}

\* Steps of a create process that write no row.
LEMMA SentByCreator ==
    ASSUME TypeOK, SentInv, NEW p \in Creators, \A q \in Creators : q = p,
           NEW c, creator' = [creator EXCEPT ![p] = c], WillHavePosted(c),
           sent' \in [Days -> SUBSET Brands],
           \A d \in Days : sent[d] \subseteq sent'[d],
           UNCHANGED <<picks, evaluator>>
    PROVE  SentInv'
  <1>1. NotifiedWereSent' /\ CopiesWereSent'
    BY DEF SentInv, NotifiedWereSent, CopiesWereSent, Picked
  <1>2. \A q \in Creators : creator'[q] = c
    BY DEF TypeOK
  <1>3. \A q \in Creators : PostedSoFar(creator[q])'
    BY <1>2 DEF PostedSoFar, WillHavePosted, Picked
  <1>4. QED
    BY <1>1, <1>3 DEF SentInv

LEMMA SentCreate ==
    ASSUME TypeOK, SentInv, NEW p \in Creators, \A q \in Creators : q = p,
           Create(p) \/ SlackFails(p) \/ CreatorDies(p)
    PROVE  SentInv'
  <1> DEFINE c == creator[p]
  <1>1. /\ creator \in [Creators -> CreatorMemory]
        /\ c \in CreatorMemory
        /\ picks \in [Days -> [Brands -> Rows]]
        /\ sent \in [Days -> SUBSET Brands]
    BY DEF TypeOK, CreatorMemory
  <1>2. /\ c.date \in Days /\ c.ranks \in [Brands -> Nat]
        /\ c.unsent \in SUBSET Brands /\ c.pc \in Steps
    BY <1>1 DEF CreatorMemory
  <1>3. PostedSoFar(c)
    BY DEF SentInv
  <1>4. ASSUME NEW m, m.pc \notin {"send", "mark"}
        PROVE  WillHavePosted(m)
    BY <1>4 DEF WillHavePosted
  <1>5. IdleCreator.pc = "idle"
    BY DEF IdleCreator
  <1>6. ASSUME NEW force \in ForceFlags, BeginCreate(p, force)
        PROVE  SentInv'
    <2>1. PICK date \in TradingDates, from \in RecentDates(WarmUp) :
              creator' = [creator EXCEPT ![p] =
                 [IdleCreator EXCEPT !.pc = IF force THEN "screen" ELSE "check",
                                     !.date = date,
                                     !.from = from]]
      BY <1>6 DEF BeginCreate
    <2> DEFINE m == [IdleCreator EXCEPT !.pc = IF force THEN "screen" ELSE "check",
                                        !.date = date,
                                        !.from = from]
    <2>2. m.pc \notin {"send", "mark"}
      BY DEF IdleCreator
    <2> HIDE DEF m
    <2>3. WillHavePosted(m)
      BY <1>4, <2>2
    <2>4. creator' = [creator EXCEPT ![p] = m]
      BY <2>1 DEF m
    <2>5. UNCHANGED <<picks, evaluator, sent>>
      BY <1>6 DEF BeginCreate
    <2>6. QED
      BY <1>1, <2>3, <2>4, <2>5, SentByCreator
  <1>7. CASE CheckExisting(p)
    <2> DEFINE m == IF Picked(c.date) = {} THEN [c EXCEPT !.pc = "screen"]
                    ELSE IF AllNotified(c.date) THEN IdleCreator
                    ELSE [c EXCEPT !.pc = "send",
                             !.ranks = [b \in Brands |-> picks[c.date][b].rank],
                             !.unsent = Picked(c.date)]
    <2>1. creator' = [creator EXCEPT ![p] = m]
      BY <1>1, <1>7 DEF CheckExisting
    <2>2. UNCHANGED <<picks, evaluator, sent>>
      BY <1>7 DEF CheckExisting
    <2>3. \/ m.pc \in {"screen", "idle"}
          \/ m.pc = "send" /\ m.date = c.date /\ m.unsent = Picked(c.date)
      BY <1>1, <1>5 DEF CreatorMemory
    <2> HIDE DEF m
    <2>4. WillHavePosted(m)
      BY <2>3 DEF WillHavePosted
    <2>5. QED
      BY <1>1, <2>1, <2>2, <2>4, SentByCreator
  <1>8. CASE Screen(p)
    <2>1. PICK r \in Rankings(Candidates(c.from, c.date)) :
              creator' = [creator EXCEPT ![p] =
                 IF r = NoRanks THEN IdleCreator
                 ELSE [c EXCEPT !.pc = "save", !.ranks = r]]
      BY <1>1, <1>8 DEF Screen
    <2> DEFINE m == IF r = NoRanks THEN IdleCreator
                    ELSE [c EXCEPT !.pc = "save", !.ranks = r]
    <2>2. creator' = [creator EXCEPT ![p] = m]
      BY <2>1
    <2>3. m.pc \notin {"send", "mark"}
      BY <1>1, <1>5 DEF CreatorMemory
    <2> HIDE DEF m
    <2>4. WillHavePosted(m)
      BY <1>4, <2>3
    <2>5. UNCHANGED <<picks, evaluator, sent>>
      BY <1>8 DEF Screen
    <2>6. QED
      BY <1>1, <2>2, <2>4, <2>5, SentByCreator
  <1>9. CASE SavePicks(p)
    <2> DEFINE U == {b \in Brands : c.ranks[b] > 0}
    <2>1. /\ picks' = [picks EXCEPT ![c.date] = [b \in Brands |-> FreshRow(c.ranks[b])]]
          /\ creator' = [creator EXCEPT ![p].pc = "send", ![p].unsent = U]
          /\ UNCHANGED <<evaluator, sent>>
      BY <1>9 DEF SavePicks
    <2>2. \A b \in Brands : FreshRow(c.ranks[b]).rank = c.ranks[b]
                            /\ ~FreshRow(c.ranks[b]).notified
      BY <1>2, FreshRowType
    <2>3. NotifiedWereSent'
      BY <1>1, <1>2, <2>1, <2>2 DEF SentInv, NotifiedWereSent, Picked
    <2>4. /\ creator'[p].date = c.date /\ creator'[p].unsent = U
          /\ creator'[p].pc = "send"
      BY <1>1, <2>1 DEF CreatorMemory
    <2>5. \A b \in Brands : picks'[c.date][b].rank = c.ranks[b]
      BY <1>1, <1>2, <2>1, <2>2
    <2>6. PostedSoFar(creator[p])'
      BY <2>4, <2>5 DEF PostedSoFar, Picked
    <2>7. QED
      BY <2>1, <2>3, <2>6 DEF SentInv, CopiesWereSent
  <1>10. CASE SendBody(p)
    <2>1. PICK B \in Bodies(c) :
              /\ sent' = [sent EXCEPT ![c.date] = @ \cup B]
              /\ creator' = [creator EXCEPT
                               ![p].unsent = @ \ B,
                               ![p].pc = IF c.unsent = B THEN "mark" ELSE "send"]
      BY <1>10 DEF SendBody
    <2>2. c.pc = "send" /\ UNCHANGED <<picks, evaluator>>
      BY <1>10 DEF SendBody
    <2> DEFINE m == [c EXCEPT !.unsent = @ \ B,
                              !.pc = IF c.unsent = B THEN "mark" ELSE "send"]
    <2>3. creator' = [creator EXCEPT ![p] = m]
      BY <1>1, <2>1
    <2>4. /\ m.date = c.date /\ m.unsent = c.unsent \ B
          /\ m.pc = "mark" => c.unsent = B
      BY <1>1 DEF CreatorMemory
    <2> HIDE DEF m
    <2>5. B \subseteq Brands
      BY <1>2, <2>1 DEF Bodies
    <2>6. /\ sent' \in [Days -> SUBSET Brands]
          /\ sent'[c.date] = sent[c.date] \cup B
          /\ \A d \in Days : sent[d] \subseteq sent'[d]
      BY <1>1, <1>2, <2>1, <2>5
    <2>7. WillHavePosted(m)
      <3>1. Picked(c.date) \ c.unsent \subseteq sent[c.date]
        BY <1>3, <2>2 DEF PostedSoFar
      <3>2. Picked(m.date) \ m.unsent \subseteq sent'[m.date]
        BY <2>4, <2>6, <3>1
      <3>3. m.pc = "mark" => m.unsent = {}
        BY <2>4
      <3>4. QED
        BY <3>2, <3>3 DEF WillHavePosted
    <2>8. QED
      BY <1>1, <2>2, <2>3, <2>6, <2>7, SentByCreator
  <1>11. CASE MarkNotified(p)
    <2> DEFINE row(b) == IF b \in Picked(c.date)
                         THEN [picks[c.date][b] EXCEPT !.notified = TRUE]
                         ELSE picks[c.date][b]
    <2>1. /\ picks' = [picks EXCEPT ![c.date] = [b \in Brands |-> row(b)]]
          /\ creator' = [creator EXCEPT ![p] = IdleCreator]
          /\ UNCHANGED <<evaluator, sent>>
          /\ c.pc = "mark"
      BY <1>11 DEF MarkNotified
    <2>2. Picked(c.date) \subseteq sent[c.date]
      BY <1>3, <2>1 DEF PostedSoFar
    <2>3. \A b \in Brands : picks[c.date][b].rank = row(b).rank
      BY <1>1, <1>2 DEF Rows
    <2> HIDE DEF row
    <2>4. \A d \in Days, b \in Brands : picks'[d][b].rank = picks[d][b].rank
      BY <1>1, <2>1, <2>3
    <2>5. \A d \in Days : Picked(d)' = Picked(d)
      BY <2>4 DEF Picked
    <2>6. \A d \in Days : d # c.date => picks'[d] = picks[d]
      BY <1>1, <2>1
    <2>7. NotifiedWereSent'
      BY <2>1, <2>2, <2>5, <2>6 DEF SentInv, NotifiedWereSent
    <2>8. \A q \in Creators : creator'[q] = IdleCreator
      BY <1>1, <2>1
    <2>9. QED
      BY <1>5, <2>1, <2>7, <2>8 DEF SentInv, CopiesWereSent, PostedSoFar
  <1>12. CASE SlackFails(p)
    <2>1. PICK B \in Bodies(c) \cup {{}} :
              sent' = [sent EXCEPT ![c.date] = @ \cup B]
      BY <1>12 DEF SlackFails
    <2>2. B \subseteq Brands
      BY <1>2, <2>1 DEF Bodies
    <2>3. /\ sent' \in [Days -> SUBSET Brands]
          /\ \A d \in Days : sent[d] \subseteq sent'[d]
      BY <1>1, <1>2, <2>1, <2>2
    <2>4. QED
      BY <1>4, <1>5, <1>12, <2>3, SentByCreator DEF SlackFails
  <1>13. CASE CreatorDies(p)
    BY <1>1, <1>4, <1>5, <1>13, SentByCreator DEF CreatorDies
  <1>14. QED
    BY <1>6, <1>7, <1>8, <1>9, <1>10, <1>11, <1>12, <1>13 DEF Create

\* What a commit leaves of each row: its rank is the copy's or unchanged, and it
\* is marked if and only if the row or the copy was.
LEMMA CommitRow ==
    ASSUME SettledInv, NEW e \in Evaluators, CommitEvaluate(e),
           NEW d \in Days, NEW b \in Brands
    PROVE  \/ picks'[d][b] = picks[d][b]
           \/ /\ b \in evaluator[e].pending[d]
              /\ picks[d][b].rank # 0
              /\ picks'[d][b].rank = evaluator[e].copy[d][b].rank
              /\ \/ picks'[d][b].outcome = picks[d][b].outcome
                 \/ picks'[d][b].outcome \in Outcomes \ {"null"}
              /\ picks'[d][b].notified <=>
                     picks[d][b].notified \/ evaluator[e].copy[d][b].notified
  <1> DEFINE v == evaluator[e]
             r == v.copy[d][b]
  <1>1. PICK gain \in [Brands -> Moves] :
            picks' = [dd \in Days |-> [bb \in Brands |->
                IF bb \in v.pending[dd] /\ HasUpdate(bb, dd, v.now)
                THEN Overwrite(picks[dd][bb],
                        Evaluate(v.copy[dd][bb], bb, dd, v.now, gain[bb]))
                ELSE picks[dd][bb]]]
    BY DEF CommitEvaluate
  <1> DEFINE u == Evaluate(r, b, d, v.now, gain[b])
  <1>2. /\ r \in Rows /\ Undecided(r) /\ v.now \in Days
        /\ bars \in [Brands -> SUBSET Days]
        /\ picks[d][b] \in Rows
    BY DEF SettledInv, CopiesAreUndecided, TypeOK, MarketTypeOK
  <1>3. u \in Rows /\ u.rank = r.rank /\ u.notified = r.notified
    BY <1>2, EvaluateSound
  <1>4. picks'[d][b] = IF b \in v.pending[d] /\ HasUpdate(b, d, v.now)
                       THEN Overwrite(picks[d][b], u)
                       ELSE picks[d][b]
    BY <1>1
  <1> HIDE DEF u, r
  <1>5. CASE ~(b \in v.pending[d] /\ HasUpdate(b, d, v.now)) \/ picks[d][b].rank = 0
    BY <1>4, <1>5 DEF Overwrite
  <1>6. CASE /\ b \in v.pending[d] /\ HasUpdate(b, d, v.now)
             /\ picks[d][b].rank # 0
    <2> DEFINE w == Overwrite(picks[d][b], u)
    <2>1. /\ w.rank = r.rank
          /\ w.outcome = IF u.outcome = "null" THEN picks[d][b].outcome ELSE u.outcome
          /\ w.notified <=> picks[d][b].notified \/ r.notified
      BY <1>3, <1>6 DEF Overwrite
    <2>2. u.outcome \in Outcomes
      BY <1>3 DEF Rows
    <2>3. picks'[d][b] = w
      BY <1>4, <1>6
    <2> HIDE DEF w
    <2>4. w.outcome = picks[d][b].outcome \/ w.outcome \in Outcomes \ {"null"}
      BY <2>1, <2>2
    <2>5. QED
      BY <1>6, <2>1, <2>3, <2>4 DEF r
  <1>7. QED
    BY <1>5, <1>6

LEMMA SentEvaluate ==
    ASSUME SettledInv, SentInv, NEW e \in Evaluators,
           BeginEvaluate(e) \/ CommitEvaluate(e) \/ EvaluatorDies(e)
    PROVE  SentInv'
  <1>1. /\ evaluator \in [Evaluators -> EvaluatorMemory]
        /\ creator \in [Creators -> CreatorMemory]
        /\ picks \in [Days -> [Brands -> Rows]]
    BY DEF SettledInv, TypeOK, EvaluatorMemory, CreatorMemory
  <1>2. UNCHANGED <<creator, sent>>
    BY DEF BeginEvaluate, CommitEvaluate, EvaluatorDies
  <1>3. \A d \in Days, b \in Brands : ~IdleEvaluator.copy[d][b].notified
    BY FreshRowType DEF IdleEvaluator, NoRow
  <1>4. CASE BeginEvaluate(e)
    <2>1. UNCHANGED picks
      BY <1>4 DEF BeginEvaluate
    <2>2. ASSUME NEW f \in Evaluators, NEW d \in Days, NEW b \in Brands,
                 evaluator'[f].copy[d][b].notified
          PROVE  b \in sent[d]
      <3>1. CASE evaluator'[f] = evaluator[f]
        BY <2>2, <3>1 DEF SentInv, CopiesWereSent
      <3>2. CASE evaluator'[f] # evaluator[f]
        <4>1. evaluator'[f].copy[d][b] = IF b \in PendingSince(today, d)
                                         THEN picks[d][b] ELSE NoRow
          BY <1>1, <1>4, <3>2 DEF BeginEvaluate
        <4>2. b \in Picked(d) /\ picks[d][b].notified
          BY <2>2, <4>1, FreshRowType DEF NoRow, PendingSince, Pending
        <4>3. QED
          BY <4>2 DEF SentInv, NotifiedWereSent
      <3>3. QED
        BY <3>1, <3>2
    <2>3. QED
      BY <1>2, <2>1, <2>2
         DEF SentInv, NotifiedWereSent, CopiesWereSent, PostedSoFar, Picked
  <1>5. CASE CommitEvaluate(e)
    <2>1. ASSUME NEW d \in Days, NEW b \in Brands
          PROVE  /\ picks'[d][b].rank > 0 => picks[d][b].rank > 0
                 /\ picks[d][b].rank > 0 /\ picks'[d][b].notified => b \in sent[d]
      <3>1. picks[d][b].rank \in Nat
        BY <1>1 DEF Rows
      <3>2. picks[d][b].rank > 0 /\ picks[d][b].notified => b \in sent[d]
        BY DEF SentInv, NotifiedWereSent, Picked
      <3>3. evaluator[e].copy[d][b].notified => b \in sent[d]
        BY DEF SentInv, CopiesWereSent
      <3>4. CASE picks'[d][b] = picks[d][b]
        BY <3>2, <3>4
      <3>5. CASE /\ picks[d][b].rank # 0
                 /\ picks'[d][b].notified =>
                       picks[d][b].notified \/ evaluator[e].copy[d][b].notified
        BY <3>1, <3>2, <3>3, <3>5
      <3>6. QED
        BY <1>5, <3>4, <3>5, CommitRow
    <2>2. NotifiedWereSent'
      BY <1>2, <2>1 DEF NotifiedWereSent, Picked
    <2>3. CopiesWereSent'
      BY <1>1, <1>2, <1>3, <1>5 DEF CommitEvaluate, SentInv, CopiesWereSent
    <2>4. \A p \in Creators : PostedSoFar(creator[p])'
      <3>1. ASSUME NEW p \in Creators
            PROVE  PostedSoFar(creator[p])'
        <4>1. creator[p].date \in Days
          BY <1>1 DEF CreatorMemory
        <4>2. \A b \in Brands : picks'[creator[p].date][b].rank > 0
                                   => picks[creator[p].date][b].rank > 0
          BY <2>1, <4>1
        <4>3. QED
          BY <1>2, <4>2 DEF SentInv, PostedSoFar, Picked
      <3>2. QED
        BY <3>1
    <2>5. QED
      BY <2>2, <2>3, <2>4 DEF SentInv
  <1>6. CASE EvaluatorDies(e)
    BY <1>1, <1>2, <1>3, <1>6
       DEF EvaluatorDies, SentInv, NotifiedWereSent, CopiesWereSent, PostedSoFar,
           Picked
  <1>7. QED
    BY <1>4, <1>5, <1>6

\* When create processes do not overlap, a mark in the table vouches for a
\* Slack message about that brand and date, in spite of --force, crashes
\* between the post and the mark, and evaluations writing back old copies.
THEOREM NotifiedSent ==
    ASSUME \A p, q \in Creators : p = q
    PROVE  Spec => []NotifiedWereSent
  <1>1. SettledInv /\ SentInv /\ [Next]_vars => SentInv'
    <2> SUFFICES ASSUME SettledInv, SentInv, [Next]_vars PROVE SentInv'
      OBVIOUS
    <2>1. CASE \E p \in Creators : Create(p) \/ SlackFails(p) \/ CreatorDies(p)
      BY <2>1, SentCreate DEF SettledInv
    <2>2. CASE \E e \in Evaluators :
                   BeginEvaluate(e) \/ CommitEvaluate(e) \/ EvaluatorDies(e)
      BY <2>2, SentEvaluate
    <2>3. CASE UNCHANGED <<picks, creator, evaluator, sent>>
      BY <2>3 DEF SentInv, NotifiedWereSent, CopiesWereSent, PostedSoFar, Picked
    <2>4. QED
      BY <2>1, <2>2, <2>3
         DEF Next, RecordCorporateAction, MarketChanges, DayPasses, pickVars, vars
  <1>2. SentInv => NotifiedWereSent
    BY DEF SentInv
  <1>3. QED
    BY <1>1, <1>2, SentInit, SettledAlways, PTL DEF Spec

-----------------------------------------------------------------------------
(* The picks implement the ledger, when evaluations do not overlap *)

\* What an evaluation holds is still unsettled in the table if it is there at
\* all: nobody else settles rows, and a new list starts unsettled.
HeldAreUnsettled ==
    \A e \in Evaluators, d \in Days : \A b \in evaluator[e].pending[d] :
        /\ evaluator[e].copy[d][b].rank > 0
        /\ b \in Picked(d) => picks[d][b].outcome = "null"

SavesSomething ==
    \A p \in Creators :
        creator[p].pc = "save" => \E b \in Brands : creator[p].ranks[b] > 0

LedgerInv == HeldAreUnsettled /\ SavesSomething

LEMMA LedgerInitInv == Init => LedgerInv
  BY DEF Init, LedgerInv, HeldAreUnsettled, SavesSomething, IdleCreator,
         IdleEvaluator

LEMMA LedgerCreate ==
    ASSUME SettledInv, LedgerInv, NEW p \in Creators,
           Create(p) \/ SlackFails(p) \/ CreatorDies(p)
    PROVE  LedgerInv'
  <1>1. /\ creator \in [Creators -> CreatorMemory]
        /\ evaluator \in [Evaluators -> EvaluatorMemory]
        /\ picks \in [Days -> [Brands -> Rows]]
    BY DEF SettledInv, TypeOK, CreatorMemory, EvaluatorMemory
  <1>2. /\ creator[p] \in CreatorMemory
        /\ creator[p].date \in Days /\ creator[p].ranks \in [Brands -> Nat]
    BY <1>1 DEF CreatorMemory
  <1>3. UNCHANGED evaluator
    BY Zenon DEF Create, BeginCreate, CheckExisting, Screen, SavePicks, SendBody,
                 MarkNotified, SlackFails, CreatorDies
  <1>4. IdleCreator.pc = "idle"
    BY DEF IdleCreator
  <1>5. ASSUME NEW m, creator' = [creator EXCEPT ![p] = m],
               m.pc = "save" => \E b \in Brands : m.ranks[b] > 0
        PROVE  SavesSomething'
    BY <1>1, <1>5 DEF LedgerInv, SavesSomething
  <1>6. ASSUME UNCHANGED picks
        PROVE  HeldAreUnsettled'
    BY <1>3, <1>6 DEF LedgerInv, HeldAreUnsettled, Picked
  <1>7. ASSUME NEW force \in ForceFlags, BeginCreate(p, force)
        PROVE  LedgerInv'
    <2>1. PICK date \in TradingDates, from \in RecentDates(WarmUp) :
              creator' = [creator EXCEPT ![p] =
                 [IdleCreator EXCEPT !.pc = IF force THEN "screen" ELSE "check",
                                     !.date = date,
                                     !.from = from]]
      BY <1>7 DEF BeginCreate
    <2> DEFINE m == [IdleCreator EXCEPT !.pc = IF force THEN "screen" ELSE "check",
                                        !.date = date,
                                        !.from = from]
    <2>2. m.pc # "save"
      BY DEF IdleCreator
    <2> HIDE DEF m
    <2>3. creator' = [creator EXCEPT ![p] = m]
      BY <2>1 DEF m
    <2>4. QED
      BY <1>5, <1>6, <1>7, <2>2, <2>3 DEF BeginCreate, LedgerInv
  <1>8. CASE CheckExisting(p)
    <2> DEFINE c == creator[p]
               m == IF Picked(c.date) = {} THEN [c EXCEPT !.pc = "screen"]
                    ELSE IF AllNotified(c.date) THEN IdleCreator
                    ELSE [c EXCEPT !.pc = "send",
                             !.ranks = [b \in Brands |-> picks[c.date][b].rank],
                             !.unsent = Picked(c.date)]
    <2>1. creator' = [creator EXCEPT ![p] = m]
      BY <1>1, <1>8 DEF CheckExisting
    <2>2. m.pc # "save"
      BY <1>2, <1>4 DEF CreatorMemory
    <2> HIDE DEF m
    <2>3. QED
      BY <1>5, <1>6, <1>8, <2>1, <2>2 DEF CheckExisting, LedgerInv
  <1>9. CASE Screen(p)
    <2> DEFINE c == creator[p]
    <2>1. PICK r \in Rankings(Candidates(c.from, c.date)) :
              creator' = [creator EXCEPT ![p] =
                 IF r = NoRanks THEN IdleCreator
                 ELSE [c EXCEPT !.pc = "save", !.ranks = r]]
      BY <1>1, <1>9 DEF Screen
    <2> DEFINE m == IF r = NoRanks THEN IdleCreator
                    ELSE [c EXCEPT !.pc = "save", !.ranks = r]
    <2>2. creator' = [creator EXCEPT ![p] = m]
      BY <2>1
    <2>3. r # NoRanks => \E b \in Brands : r[b] > 0
      <3>1. r \in [Brands -> 0 .. Cardinality(Candidates(c.from, c.date))]
        BY <2>1 DEF Rankings
      <3>2. IsFiniteSet(Candidates(c.from, c.date))
        <4>1. Candidates(c.from, c.date) \subseteq Brands
          BY DEF Candidates, SettledInv, TypeOK, MarketTypeOK
        <4>2. QED
          BY <4>1, BrandsAssumption, FS_Subset
      <3>3. Cardinality(Candidates(c.from, c.date)) \in Nat
        BY <3>2, FS_CardinalityType
      <3>4. ASSUME r # NoRanks
            PROVE  \E b \in Brands : r[b] # 0
        BY <3>1, <3>4 DEF NoRanks
      <3>5. QED
        BY <3>1, <3>3, <3>4
    <2>4. /\ m.pc = "save" => r # NoRanks
          /\ r # NoRanks => m.ranks = r
      BY <1>2, <1>4 DEF CreatorMemory
    <2> HIDE DEF m
    <2>5. m.pc = "save" => \E b \in Brands : m.ranks[b] > 0
      BY <2>3, <2>4
    <2>6. QED
      BY <1>5, <1>6, <1>9, <2>2, <2>5 DEF Screen, LedgerInv
  <1>10. CASE SavePicks(p)
    <2> DEFINE c == creator[p]
    <2>1. /\ picks' = [picks EXCEPT ![c.date] = [b \in Brands |-> FreshRow(c.ranks[b])]]
          /\ creator' = [creator EXCEPT
                           ![p].pc = "send",
                           ![p].unsent = {b \in Brands : c.ranks[b] > 0}]
      BY <1>10 DEF SavePicks
    <2>2. \A b \in Brands : picks'[c.date][b].outcome = "null"
      BY <1>1, <1>2, <2>1, FreshRowType
    <2>3. \A d \in Days : d # c.date => picks'[d] = picks[d]
      BY <1>1, <2>1
    <2>4. \A e \in Evaluators, d \in Days : evaluator[e].pending[d] \subseteq Brands
      BY <1>1 DEF EvaluatorMemory
    <2>5. HeldAreUnsettled'
      BY <1>3, <2>2, <2>3, <2>4 DEF LedgerInv, HeldAreUnsettled, Picked
    <2>6. SavesSomething'
      BY <1>1, <2>1 DEF LedgerInv, SavesSomething, CreatorMemory
    <2>7. QED
      BY <2>5, <2>6 DEF LedgerInv
  <1>11. CASE SendBody(p)
    <2>1. PICK B \in Bodies(creator[p]) :
              creator' = [creator EXCEPT
                 ![p].unsent = @ \ B,
                 ![p].pc = IF creator[p].unsent = B THEN "mark" ELSE "send"]
      BY <1>11 DEF SendBody
    <2>2. SavesSomething'
      BY <1>1, <2>1 DEF LedgerInv, SavesSomething, CreatorMemory
    <2>3. QED
      BY <1>6, <1>11, <2>2 DEF SendBody, LedgerInv
  <1>12. CASE MarkNotified(p)
    <2> DEFINE d0 == creator[p].date
               row(b) == IF b \in Picked(d0)
                         THEN [picks[d0][b] EXCEPT !.notified = TRUE]
                         ELSE picks[d0][b]
    <2>1. picks' = [picks EXCEPT ![d0] = [b \in Brands |-> row(b)]]
      BY <1>12 DEF MarkNotified
    <2>2. \A b \in Brands : /\ picks[d0][b].rank = row(b).rank
                            /\ picks[d0][b].outcome = row(b).outcome
      BY <1>1, <1>2 DEF Rows
    <2> HIDE DEF row
    <2>3. \A d \in Days, b \in Brands :
              /\ picks'[d][b].rank = picks[d][b].rank
              /\ picks'[d][b].outcome = picks[d][b].outcome
      BY <1>1, <1>2, <2>1, <2>2
    <2>4. \A e \in Evaluators, d \in Days : evaluator[e].pending[d] \subseteq Brands
      BY <1>1 DEF EvaluatorMemory
    <2>5. HeldAreUnsettled'
      BY <1>3, <2>3, <2>4 DEF LedgerInv, HeldAreUnsettled, Picked
    <2>6. SavesSomething'
      BY <1>4, <1>5, <1>12 DEF MarkNotified
    <2>7. QED
      BY <2>5, <2>6 DEF LedgerInv
  <1>13. CASE SlackFails(p) \/ CreatorDies(p)
    BY <1>4, <1>5, <1>6, <1>13 DEF SlackFails, CreatorDies, LedgerInv
  <1>14. QED
    BY <1>7, <1>8, <1>9, <1>10, <1>11, <1>12, <1>13 DEF Create

LEMMA LedgerEvaluate ==
    ASSUME SettledInv, LedgerInv, NEW e \in Evaluators, \A f \in Evaluators : f = e,
           BeginEvaluate(e) \/ CommitEvaluate(e) \/ EvaluatorDies(e)
    PROVE  LedgerInv'
  <1>1. /\ evaluator \in [Evaluators -> EvaluatorMemory]
        /\ picks \in [Days -> [Brands -> Rows]]
    BY DEF SettledInv, TypeOK, EvaluatorMemory
  <1>2. SavesSomething'
    BY DEF BeginEvaluate, CommitEvaluate, EvaluatorDies, LedgerInv, SavesSomething
  <1>3. CASE BeginEvaluate(e)
    <2>1. UNCHANGED picks
      BY <1>3 DEF BeginEvaluate
    <2>2. ASSUME NEW f \in Evaluators, NEW d \in Days,
                 NEW b \in evaluator'[f].pending[d]
          PROVE  /\ evaluator'[f].copy[d][b].rank > 0
                 /\ b \in Picked(d) => picks[d][b].outcome = "null"
      <3>1. CASE evaluator'[f] = evaluator[f]
        BY <2>2, <3>1 DEF LedgerInv, HeldAreUnsettled
      <3>2. CASE evaluator'[f] # evaluator[f]
        <4>1. evaluator'[f] = [pc |-> "evaluate", now |-> today,
                 pending |-> [dd \in Days |-> PendingSince(today, dd)],
                 copy |-> [dd \in Days |-> [bb \in Brands |->
                              IF bb \in PendingSince(today, dd)
                              THEN picks[dd][bb] ELSE NoRow]]]
          BY <1>1, <1>3, <3>2 DEF BeginEvaluate
        <4>2. b \in PendingSince(today, d) /\ b \in Brands
          BY <4>1 DEF PendingSince
        <4>3. evaluator'[f].copy[d][b] = picks[d][b]
          BY <4>1, <4>2
        <4>4. Pending(d, b)
          BY <4>2 DEF PendingSince
        <4>5. SoundRow(picks[d][b])
          BY <4>2 DEF SettledInv, RowsAreSound
        <4>6. QED
          BY <4>3, <4>4, <4>5 DEF Pending, Picked, SoundRow
      <3>3. QED
        BY <3>1, <3>2
    <2>3. QED
      BY <1>2, <2>1, <2>2 DEF LedgerInv, HeldAreUnsettled, Picked
  <1>4. CASE CommitEvaluate(e) \/ EvaluatorDies(e)
    <2>1. \A f \in Evaluators : evaluator'[f] = IdleEvaluator
      BY <1>1, <1>4 DEF CommitEvaluate, EvaluatorDies
    <2>2. QED
      BY <1>2, <2>1 DEF LedgerInv, HeldAreUnsettled, IdleEvaluator
  <1>5. QED
    BY <1>3, <1>4

\* The view of a row depends on its rank and outcome only.
LEMMA SameView ==
    ASSUME \A d \in Days, b \in Brands :
               LedgerState(d, b)' = LedgerState(d, b)
    PROVE  UNCHANGED LedgerView
  BY DEF LedgerView

LEMMA StatesType ==
    ASSUME picks \in [Days -> [Brands -> Rows]]
    PROVE  LedgerView \in [Days -> [Brands -> Ledger!States]]
  <1>1. ASSUME NEW d \in Days, NEW b \in Brands
        PROVE  LedgerState(d, b) \in Ledger!States
    <2>1. picks[d][b].outcome \in Outcomes
      BY DEF Rows
    <2>2. QED
      BY <2>1 DEF LedgerState, Ledger!States, Outcomes, Judged
  <1>2. QED
    BY <1>1 DEF LedgerView

LEMMA LedgerStep ==
    ASSUME SettledInv, SettledInv', LedgerInv, [Next]_vars
    PROVE  [Ledger!LedgerNext]_LedgerView
  <1>1. /\ creator \in [Creators -> CreatorMemory]
        /\ picks \in [Days -> [Brands -> Rows]]
        /\ picks' \in [Days -> [Brands -> Rows]]
    BY DEF SettledInv, TypeOK, CreatorMemory
  <1>2. ASSUME \A d \in Days, b \in Brands :
                   /\ picks'[d][b].rank = picks[d][b].rank
                   /\ picks'[d][b].outcome = picks[d][b].outcome
        PROVE  UNCHANGED LedgerView
    BY <1>2, SameView DEF LedgerState, Picked
  <1>3. ASSUME UNCHANGED picks PROVE UNCHANGED LedgerView
    BY <1>3 DEF LedgerView, LedgerState, Picked
  <1>4. ASSUME NEW p \in Creators, SavePicks(p)
        PROVE  Ledger!LedgerNext
    <2> DEFINE c == creator[p]
               S == {b \in Brands : c.ranks[b] > 0}
    <2>1. c.date \in Days /\ c.ranks \in [Brands -> Nat]
      BY <1>1 DEF CreatorMemory
    <2>2. S # {}
      BY <1>4 DEF SavePicks, LedgerInv, SavesSomething
    <2>3. picks' = [picks EXCEPT ![c.date] = [b \in Brands |-> FreshRow(c.ranks[b])]]
      BY <1>4 DEF SavePicks
    <2>4. \A b \in Brands : /\ FreshRow(c.ranks[b]).rank = c.ranks[b]
                            /\ FreshRow(c.ranks[b]).outcome = "null"
      BY <2>1, FreshRowType
    <2>5. ASSUME NEW b \in Brands
          PROVE  picks'[c.date][b] = FreshRow(c.ranks[b])
      BY <1>1, <2>1, <2>3
    <2>6. ASSUME NEW d \in Days, NEW b \in Brands, d # c.date
          PROVE  picks'[d][b] = picks[d][b]
      BY <1>1, <2>3, <2>6
    <2> PICK date \in Days, T \in SUBSET Brands :
               date = c.date /\ T = S
      BY <2>1
    <2>7. \A b \in Brands :
              LedgerState(date, b)' = IF b \in T THEN "pending" ELSE "absent"
      BY <2>4, <2>5 DEF LedgerState, Picked
    <2>8. \A d \in Days, b \in Brands :
              d # date => LedgerState(d, b)' = LedgerState(d, b)
      BY <2>6 DEF LedgerState, Picked
    <2>9. LedgerView' = [LedgerView EXCEPT ![date] =
              [b \in Brands |-> IF b \in T THEN "pending" ELSE "absent"]]
      <3> DEFINE new == [b \in Brands |-> IF b \in T THEN "pending" ELSE "absent"]
      <3>1. LedgerView' = [d \in Days |-> [b \in Brands |-> LedgerState(d, b)']]
        BY DEF LedgerView
      <3>2. [b \in Brands |-> LedgerState(date, b)'] = new
        BY <2>7
      <3>3. ASSUME NEW d \in Days, d # date
            PROVE  [b \in Brands |-> LedgerState(d, b)'] = LedgerView[d]
        BY <2>8, <3>3 DEF LedgerView
      <3> HIDE DEF new
      <3>4. [d \in Days |-> [b \in Brands |-> LedgerState(d, b)']]
              = [d \in Days |-> IF d = date THEN new ELSE LedgerView[d]]
        BY <3>2, <3>3
      <3>5. DOMAIN LedgerView = Days
        BY DEF LedgerView
      <3>6. LedgerView' = [LedgerView EXCEPT ![date] = new]
        BY <3>1, <3>4, <3>5
      <3>7. QED
        BY <3>6 DEF new
    <2>10. QED
      BY <2>2, <2>9 DEF Ledger!LedgerNext, Ledger!Publish
  <1>5. ASSUME NEW p \in Creators, MarkNotified(p)
        PROVE  UNCHANGED LedgerView
    <2> DEFINE d0 == creator[p].date
               row(b) == IF b \in Picked(d0)
                         THEN [picks[d0][b] EXCEPT !.notified = TRUE]
                         ELSE picks[d0][b]
    <2>1. picks' = [picks EXCEPT ![d0] = [b \in Brands |-> row(b)]]
      BY <1>5 DEF MarkNotified
    <2>2. d0 \in Days
      BY <1>1 DEF CreatorMemory
    <2>3. \A b \in Brands : /\ picks[d0][b].rank = row(b).rank
                            /\ picks[d0][b].outcome = row(b).outcome
      BY <1>1, <2>2 DEF Rows
    <2> HIDE DEF row
    <2>4. \A d \in Days, b \in Brands :
              /\ picks'[d][b].rank = picks[d][b].rank
              /\ picks'[d][b].outcome = picks[d][b].outcome
      BY <1>1, <2>1, <2>2, <2>3
    <2>5. QED
      BY <1>2, <2>4
  <1>6. ASSUME NEW e \in Evaluators, CommitEvaluate(e)
        PROVE  Ledger!LedgerNext
    <2>1. ASSUME NEW d \in Days, NEW b \in Brands
          PROVE  \/ LedgerState(d, b)' = LedgerState(d, b)
                 \/ /\ LedgerState(d, b) = "pending"
                    /\ LedgerState(d, b)' \in Ledger!Settled
      <3>1. CASE picks'[d][b] = picks[d][b]
        BY <3>1 DEF LedgerState, Picked
      <3>2. CASE /\ b \in evaluator[e].pending[d]
                 /\ picks[d][b].rank # 0
                 /\ picks'[d][b].rank = evaluator[e].copy[d][b].rank
                 /\ \/ picks'[d][b].outcome = picks[d][b].outcome
                    \/ picks'[d][b].outcome \in Outcomes \ {"null"}
        <4>1. picks[d][b].rank \in Nat /\ picks'[d][b].rank > 0
          BY <1>1, <3>2 DEF LedgerInv, HeldAreUnsettled, Rows
        <4>2. b \in Picked(d) /\ b \in Picked(d)'
          BY <3>2, <4>1 DEF Picked
        <4>3. picks[d][b].outcome = "null"
          BY <3>2, <4>2 DEF LedgerInv, HeldAreUnsettled
        <4>4. QED
          BY <3>2, <4>2, <4>3 DEF LedgerState, Ledger!Settled, Outcomes, Judged
      <3>3. QED
        BY <1>6, <3>1, <3>2, CommitRow
    <2>2. ASSUME NEW d \in Days, NEW b \in Brands
          PROVE  /\ LedgerView[d][b] = LedgerState(d, b)
                 /\ LedgerView'[d][b] = LedgerState(d, b)'
      BY DEF LedgerView
    <2>3. LedgerView' \in [Days -> [Brands -> Ledger!States]]
      <3>1. ASSUME NEW d \in Days, NEW b \in Brands
            PROVE  LedgerState(d, b)' \in Ledger!States
        <4>1. picks'[d][b].outcome \in Outcomes
          BY <1>1 DEF Rows
        <4>2. QED
          BY <4>1 DEF LedgerState, Ledger!States, Outcomes, Judged
      <3>2. QED
        BY <3>1 DEF LedgerView
    <2>4. Ledger!SettleSome
      BY <2>1, <2>2, <2>3 DEF Ledger!SettleSome
    <2>5. QED
      BY <2>4 DEF Ledger!LedgerNext
  <1>7. CASE \E p \in Creators : Create(p) \/ SlackFails(p) \/ CreatorDies(p)
    <2>1. PICK p \in Creators : Create(p) \/ SlackFails(p) \/ CreatorDies(p)
      BY <1>7
    <2>2. SavePicks(p) \/ MarkNotified(p) \/ UNCHANGED picks
      BY <2>1 DEF Create, BeginCreate, CheckExisting, Screen, SendBody,
                  SlackFails, CreatorDies
    <2>3. QED
      BY <1>3, <1>4, <1>5, <2>2
  <1>8. CASE \E e \in Evaluators :
                 BeginEvaluate(e) \/ CommitEvaluate(e) \/ EvaluatorDies(e)
    <2>1. PICK e \in Evaluators : CommitEvaluate(e) \/ UNCHANGED picks
      BY <1>8 DEF BeginEvaluate, EvaluatorDies
    <2>2. QED
      BY <1>3, <1>6, <2>1
  <1>9. CASE UNCHANGED picks
    BY <1>3, <1>9
  <1>10. QED
    BY <1>7, <1>8, <1>9
       DEF Next, RecordCorporateAction, MarketChanges, DayPasses, pickVars, vars

LEMMA LedgerAlways ==
    ASSUME \A e, f \in Evaluators : e = f
    PROVE  Spec => [](SettledInv /\ LedgerInv)
  <1>1. SettledInv /\ LedgerInv /\ [Next]_vars => LedgerInv'
    <2> SUFFICES ASSUME SettledInv, LedgerInv, [Next]_vars PROVE LedgerInv'
      OBVIOUS
    <2>1. CASE \E p \in Creators : Create(p) \/ SlackFails(p) \/ CreatorDies(p)
      BY <2>1, LedgerCreate
    <2>2. CASE \E e \in Evaluators :
                   BeginEvaluate(e) \/ CommitEvaluate(e) \/ EvaluatorDies(e)
      BY <2>2, LedgerEvaluate
    <2>3. CASE UNCHANGED <<picks, creator, evaluator>>
      BY <2>3 DEF LedgerInv, HeldAreUnsettled, SavesSomething, Picked
    <2>4. QED
      BY <2>1, <2>2, <2>3
         DEF Next, RecordCorporateAction, MarketChanges, DayPasses, pickVars, vars
  <1>2. QED
    BY <1>1, LedgerInitInv, SettledAlways, PTL DEF Spec

\* When evaluations do not overlap, the table behaves as the ledger: lists are
\* replaced whole and never by an empty one, and a settled pick keeps its
\* outcome until its date is published anew, whatever --force does meanwhile.
THEOREM PicksImplementLedger ==
    ASSUME \A e, f \in Evaluators : e = f
    PROVE  Spec => ImplementsLedger
  <1>1. Init => Ledger!LedgerInit
    BY FreshRowType
       DEF Init, Ledger!LedgerInit, LedgerView, LedgerState, Picked, NoRow
  <1>2. QED
    BY <1>1, LedgerAlways, LedgerStep, PTL
       DEF Spec, ImplementsLedger, Ledger!LedgerSpec

-----------------------------------------------------------------------------
(* Lists that stay *)

\* What an evaluation holds is the rank the row still has, and a mark the row
\* has, too.
CopiesMatchRows ==
    \A e \in Evaluators, d \in Days : \A b \in evaluator[e].pending[d] :
        LET r == evaluator[e].copy[d][b] IN
        /\ r.rank > 0
        /\ picks[d][b].rank = r.rank
        /\ r.notified => picks[d][b].notified

\* What a create process relies on between its calls: the date it screens has
\* no list, and the list it posts is not wholly marked.
KnowsItsDate(c) ==
    /\ c.pc \in {"screen", "save"} => Picked(c.date) = {}
    /\ c.pc = "save" => \E b \in Brands : c.ranks[b] > 0
    /\ c.pc = "send" => ~AllNotified(c.date)

StableInv == CopiesMatchRows /\ \A p \in Creators : KnowsItsDate(creator[p])

LEMMA StableInit == Init => StableInv
  BY DEF Init, StableInv, CopiesMatchRows, KnowsItsDate, IdleEvaluator, IdleCreator

\* Steps of the only create process that write no row.
LEMMA StableByCreator ==
    ASSUME TypeOK, StableInv, NEW p \in Creators, \A q \in Creators : q = p,
           NEW c, creator' = [creator EXCEPT ![p] = c], KnowsItsDate(c),
           UNCHANGED <<picks, evaluator>>
    PROVE  StableInv'
  <1>1. CopiesMatchRows'
    BY DEF StableInv, CopiesMatchRows
  <1>2. \A q \in Creators : creator'[q] = c
    BY DEF TypeOK
  <1>3. \A q \in Creators : KnowsItsDate(creator[q])'
    BY <1>2 DEF KnowsItsDate, Picked, AllNotified
  <1>4. QED
    BY <1>1, <1>3 DEF StableInv

\* The insert of a list: nothing pending of its date is held, since it had none.
LEMMA StableSave ==
    ASSUME TypeOK, StableInv, NEW p \in Creators, \A q \in Creators : q = p, SavePicks(p)
    PROVE  StableInv'
  <1> DEFINE c == creator[p]
             U == {b \in Brands : c.ranks[b] > 0}
  <1>1. /\ creator \in [Creators -> CreatorMemory]
        /\ c \in CreatorMemory
        /\ picks \in [Days -> [Brands -> Rows]]
        /\ evaluator \in [Evaluators -> EvaluatorMemory]
    BY DEF TypeOK, CreatorMemory, EvaluatorMemory
  <1>2. c.date \in Days /\ c.ranks \in [Brands -> Nat]
    BY <1>1 DEF CreatorMemory
  <1>3. /\ c.pc = "save"
        /\ picks' = [picks EXCEPT ![c.date] = [b \in Brands |-> FreshRow(c.ranks[b])]]
        /\ creator' = [creator EXCEPT ![p].pc = "send", ![p].unsent = U]
        /\ UNCHANGED evaluator
    BY DEF SavePicks
  <1>4. Picked(c.date) = {} /\ \E b \in Brands : c.ranks[b] > 0
    BY <1>3 DEF StableInv, KnowsItsDate
  <1>5. \A d \in Days : d # c.date => picks'[d] = picks[d]
    BY <1>1, <1>3
  <1>6. \A e \in Evaluators, b \in Brands : b \notin evaluator[e].pending[c.date]
    BY <1>2, <1>4 DEF StableInv, CopiesMatchRows, Picked
  <1>7. CopiesMatchRows'
    <2>1. ASSUME NEW e \in Evaluators, NEW d \in Days, NEW b \in evaluator[e].pending[d]
          PROVE  d # c.date /\ picks'[d][b] = picks[d][b]
      <3>1. b \in Brands
        BY <1>1 DEF EvaluatorMemory
      <3>2. QED
        BY <1>5, <1>6, <3>1
    <2>2. \A e \in Evaluators, d \in Days : \A b \in evaluator[e].pending[d] :
              /\ evaluator[e].copy[d][b].rank > 0
              /\ picks[d][b].rank = evaluator[e].copy[d][b].rank
              /\ evaluator[e].copy[d][b].notified => picks[d][b].notified
      BY DEF StableInv, CopiesMatchRows
    <2>3. evaluator' = evaluator
      BY <1>3
    <2> HIDE DEF c, U
    <2>4. SUFFICES ASSUME NEW e \in Evaluators, NEW d \in Days, NEW b \in evaluator'[e].pending[d]
                   PROVE  /\ evaluator'[e].copy[d][b].rank > 0
                          /\ picks'[d][b].rank = evaluator'[e].copy[d][b].rank
                          /\ evaluator'[e].copy[d][b].notified => picks'[d][b].notified
      BY Zenon DEF CopiesMatchRows
    <2>5. b \in evaluator[e].pending[d]
      BY <2>3
    <2>6. picks'[d][b] = picks[d][b]
      BY <2>1, <2>5
    <2>7. /\ evaluator[e].copy[d][b].rank > 0
          /\ picks[d][b].rank = evaluator[e].copy[d][b].rank
          /\ evaluator[e].copy[d][b].notified => picks[d][b].notified
      BY <2>2, <2>5
    <2>8. QED
      BY <2>3, <2>6, <2>7
  <1>8. PICK b \in Brands : c.ranks[b] > 0
    BY <1>4
  <1>9. picks'[c.date][b].rank > 0 /\ ~picks'[c.date][b].notified
    BY <1>1, <1>2, <1>3, <1>8, FreshRowType
  <1>10. \A q \in Creators : creator'[q].pc = "send" /\ creator'[q].date = c.date
    BY <1>1, <1>3 DEF CreatorMemory
  <1>11. \A q \in Creators : KnowsItsDate(creator[q])'
    BY <1>9, <1>10 DEF KnowsItsDate, AllNotified, Picked
  <1>12. QED
    BY <1>7, <1>11 DEF StableInv

LEMMA StableMark ==
    ASSUME TypeOK, StableInv, NEW p \in Creators, \A q \in Creators : q = p, MarkNotified(p)
    PROVE  /\ StableInv'
           /\ \A d \in Days, b \in Brands : picks'[d][b].rank = picks[d][b].rank
  <1> DEFINE c == creator[p]
             row(b) == IF b \in Picked(c.date)
                       THEN [picks[c.date][b] EXCEPT !.notified = TRUE]
                       ELSE picks[c.date][b]
  <1>1. /\ creator \in [Creators -> CreatorMemory]
        /\ c.date \in Days
        /\ picks \in [Days -> [Brands -> Rows]]
        /\ evaluator \in [Evaluators -> EvaluatorMemory]
    BY DEF TypeOK, CreatorMemory, EvaluatorMemory
  <1>2. /\ picks' = [picks EXCEPT ![c.date] = [b \in Brands |-> row(b)]]
        /\ creator' = [creator EXCEPT ![p] = IdleCreator]
        /\ UNCHANGED evaluator
    BY DEF MarkNotified
  <1>3. \A b \in Brands : /\ row(b).rank = picks[c.date][b].rank
                          /\ picks[c.date][b].notified => row(b).notified
    BY <1>1 DEF Rows
  <1> HIDE DEF row
  <1>4. \A d \in Days, b \in Brands : /\ picks'[d][b].rank = picks[d][b].rank
                                      /\ picks[d][b].notified => picks'[d][b].notified
    BY <1>1, <1>2, <1>3
  <1>5. \A e \in Evaluators, d \in Days : evaluator[e].pending[d] \subseteq Brands
    BY <1>1 DEF EvaluatorMemory
  <1>6. CopiesMatchRows'
    BY <1>2, <1>4, <1>5 DEF StableInv, CopiesMatchRows
  <1>7. \A q \in Creators : creator'[q].pc = "idle"
    BY <1>1, <1>2 DEF IdleCreator
  <1>8. \A q \in Creators : KnowsItsDate(creator[q])'
    BY <1>7 DEF KnowsItsDate
  <1>9. QED
    BY <1>4, <1>6, <1>8 DEF StableInv

LEMMA StableCreate ==
    ASSUME TypeOK, StableInv, ForceFlags \subseteq {FALSE},
           NEW p \in Creators, \A q \in Creators : q = p,
           Create(p) \/ SlackFails(p) \/ CreatorDies(p)
    PROVE  StableInv'
  <1> DEFINE c == creator[p]
  <1>1. /\ creator \in [Creators -> CreatorMemory]
        /\ c \in CreatorMemory
    BY DEF TypeOK, CreatorMemory
  <1>2. KnowsItsDate(c)
    BY DEF StableInv
  <1>3. IdleCreator.pc = "idle"
    BY DEF IdleCreator
  <1>4. ASSUME NEW m, m.pc \notin {"screen", "save", "send"} PROVE KnowsItsDate(m)
    BY <1>4 DEF KnowsItsDate
  <1>5. ASSUME NEW force \in ForceFlags, BeginCreate(p, force) PROVE StableInv'
    <2>1. PICK date \in TradingDates, from \in RecentDates(WarmUp) :
              creator' = [creator EXCEPT ![p] =
                 [IdleCreator EXCEPT !.pc = IF force THEN "screen" ELSE "check",
                                     !.date = date,
                                     !.from = from]]
      BY <1>5 DEF BeginCreate
    <2> DEFINE m == [IdleCreator EXCEPT !.pc = IF force THEN "screen" ELSE "check",
                                        !.date = date,
                                        !.from = from]
    <2>2. force = FALSE
      OBVIOUS
    <2>3. m.pc = "check"
      BY <2>2 DEF IdleCreator
    <2> HIDE DEF m
    <2>4. KnowsItsDate(m)
      BY <1>4, <2>3
    <2>5. creator' = [creator EXCEPT ![p] = m] /\ UNCHANGED <<picks, evaluator>>
      BY <1>5, <2>1 DEF m, BeginCreate
    <2>6. QED
      BY <2>4, <2>5, StableByCreator
  <1>6. CASE CheckExisting(p)
    <2> DEFINE m == IF Picked(c.date) = {} THEN [c EXCEPT !.pc = "screen"]
                    ELSE IF AllNotified(c.date) THEN IdleCreator
                    ELSE [c EXCEPT !.pc = "send",
                             !.ranks = [b \in Brands |-> picks[c.date][b].rank],
                             !.unsent = Picked(c.date)]
    <2>1. creator' = [creator EXCEPT ![p] = m] /\ UNCHANGED <<picks, evaluator>>
      BY <1>1, <1>6 DEF CheckExisting
    <2>2. \/ m.pc = "screen" /\ m.date = c.date /\ Picked(c.date) = {}
          \/ m.pc = "idle"
          \/ m.pc = "send" /\ m.date = c.date /\ ~AllNotified(c.date)
      BY <1>1, <1>3 DEF CreatorMemory
    <2> HIDE DEF m
    <2>3. KnowsItsDate(m)
      BY <2>2 DEF KnowsItsDate
    <2>4. QED
      BY <2>1, <2>3, StableByCreator
  <1>7. CASE Screen(p)
    <2>1. PICK r \in Rankings(Candidates(c.from, c.date)) :
              creator' = [creator EXCEPT ![p] =
                 IF r = NoRanks THEN IdleCreator
                 ELSE [c EXCEPT !.pc = "save", !.ranks = r]]
      BY <1>1, <1>7 DEF Screen
    <2> DEFINE C == Candidates(c.from, c.date)
    <2>2. Cardinality(C) \in Nat /\ r \in [Brands -> 0 .. Cardinality(C)]
      <3>1. IsFiniteSet(C)
        BY BrandsAssumption, FS_Subset DEF Candidates, SettledInv, TypeOK, MarketTypeOK
      <3>2. QED
        BY <2>1, <3>1, FS_CardinalityType DEF Rankings
    <2>3. r # NoRanks => \E b \in Brands : r[b] > 0
      BY <2>2 DEF NoRanks
    <2>4. c.pc = "screen" /\ UNCHANGED <<picks, evaluator>>
      BY <1>7 DEF Screen
    <2> DEFINE m == IF r = NoRanks THEN IdleCreator ELSE [c EXCEPT !.pc = "save", !.ranks = r]
    <2>5. \/ m.pc = "idle"
          \/ m.pc = "save" /\ m.date = c.date /\ m.ranks = r /\ r # NoRanks
      BY <1>1, <1>3 DEF CreatorMemory
    <2>6. creator' = [creator EXCEPT ![p] = m]
      BY <2>1
    <2> HIDE DEF m
    <2>7. KnowsItsDate(m)
      BY <1>2, <2>3, <2>4, <2>5 DEF KnowsItsDate
    <2>8. QED
      BY <2>4, <2>6, <2>7, StableByCreator
  <1>8. CASE SavePicks(p)
    BY <1>8, StableSave
  <1>9. CASE SendBody(p)
    <2>1. PICK B \in Bodies(c) :
              creator' = [creator EXCEPT ![p].unsent = @ \ B,
                                         ![p].pc = IF c.unsent = B THEN "mark" ELSE "send"]
      BY <1>9 DEF SendBody
    <2>2. c.pc = "send" /\ UNCHANGED <<picks, evaluator>>
      BY <1>9 DEF SendBody
    <2> DEFINE m == [c EXCEPT !.unsent = @ \ B,
                              !.pc = IF c.unsent = B THEN "mark" ELSE "send"]
    <2>3. creator' = [creator EXCEPT ![p] = m]
      BY <1>1, <2>1
    <2>4. m.date = c.date /\ m.pc \in {"mark", "send"}
      BY <1>1 DEF CreatorMemory
    <2> HIDE DEF m
    <2>5. KnowsItsDate(m)
      BY <1>2, <2>2, <2>4 DEF KnowsItsDate
    <2>6. QED
      BY <2>2, <2>3, <2>5, StableByCreator
  <1>10. CASE MarkNotified(p)
    BY <1>10, StableMark
  <1>11. CASE SlackFails(p) \/ CreatorDies(p)
    BY <1>3, <1>4, <1>11, StableByCreator DEF SlackFails, CreatorDies
  <1>12. QED
    BY <1>5, <1>6, <1>7, <1>8, <1>9, <1>10, <1>11 DEF Create

\* A commit writes back ranks and marks the rows still have.
LEMMA CommitLeavesRanks ==
    ASSUME SettledInv, StableInv, NEW e \in Evaluators, CommitEvaluate(e),
           NEW d \in Days, NEW b \in Brands
    PROVE  /\ picks'[d][b].rank = picks[d][b].rank
           /\ picks'[d][b].notified <=> picks[d][b].notified
  <1>1. b \in evaluator[e].pending[d] =>
            /\ picks[d][b].rank = evaluator[e].copy[d][b].rank
            /\ evaluator[e].copy[d][b].notified => picks[d][b].notified
    BY DEF StableInv, CopiesMatchRows
  <1>2. QED
    BY <1>1, CommitRow

LEMMA StableEvaluate ==
    ASSUME SettledInv, StableInv, NEW e \in Evaluators,
           BeginEvaluate(e) \/ CommitEvaluate(e) \/ EvaluatorDies(e)
    PROVE  StableInv'
  <1>1. /\ evaluator \in [Evaluators -> EvaluatorMemory]
        /\ creator \in [Creators -> CreatorMemory]
        /\ picks \in [Days -> [Brands -> Rows]]
    BY DEF SettledInv, TypeOK, EvaluatorMemory, CreatorMemory
  <1>2. UNCHANGED creator
    BY DEF BeginEvaluate, CommitEvaluate, EvaluatorDies
  <1>3. \A d \in Days : IdleEvaluator.pending[d] = {}
    BY DEF IdleEvaluator
  <1>4. CASE BeginEvaluate(e)
    <2>1. UNCHANGED picks
      BY <1>4 DEF BeginEvaluate
    <2>2. ASSUME NEW f \in Evaluators, NEW d \in Days, NEW b \in evaluator'[f].pending[d]
          PROVE  LET r == evaluator'[f].copy[d][b] IN
                 /\ r.rank > 0
                 /\ picks[d][b].rank = r.rank
                 /\ r.notified => picks[d][b].notified
      <3>1. CASE evaluator'[f] = evaluator[f]
        BY <3>1, <2>2 DEF StableInv, CopiesMatchRows
      <3>2. CASE evaluator'[f] # evaluator[f]
        <4>1. evaluator'[f] =
                  [pc |-> "evaluate", now |-> today,
                   pending |-> [dd \in Days |-> PendingSince(today, dd)],
                   copy |-> [dd \in Days |-> [bb \in Brands |->
                                IF bb \in PendingSince(today, dd)
                                THEN picks[dd][bb] ELSE NoRow]]]
          BY <1>1, <1>4, <3>2 DEF BeginEvaluate
        <4>2. b \in PendingSince(today, d)
          BY <2>2, <4>1
        <4>3. b \in Brands /\ picks[d][b].rank > 0
          BY <4>2 DEF PendingSince, Pending, Picked
        <4>4. evaluator'[f].copy[d][b] = picks[d][b]
          BY <4>1, <4>2, <4>3
        <4>5. QED
          BY <4>3, <4>4
      <3>3. QED
        BY <3>1, <3>2
    <2>3. CopiesMatchRows'
      BY <2>1, <2>2 DEF CopiesMatchRows
    <2>4. QED
      BY <1>2, <2>1, <2>3 DEF StableInv, KnowsItsDate, Picked, AllNotified
  <1>5. CASE CommitEvaluate(e)
    <2>1. \A d \in Days, b \in Brands :
              /\ picks'[d][b].rank = picks[d][b].rank
              /\ picks'[d][b].notified <=> picks[d][b].notified
      BY <1>5, CommitLeavesRanks
    <2>2. \A f \in Evaluators, d \in Days :
              /\ evaluator[f].pending[d] \subseteq Brands
              /\ evaluator'[f] = evaluator[f] \/ evaluator'[f].pending[d] = {}
      BY <1>1, <1>3, <1>5 DEF EvaluatorMemory, CommitEvaluate
    <2>3. CopiesMatchRows'
      BY <2>1, <2>2 DEF StableInv, CopiesMatchRows
    <2>4. \A d \in Days : /\ Picked(d)' = Picked(d)
                          /\ AllNotified(d)' <=> AllNotified(d)
      BY <2>1 DEF Picked, AllNotified
    <2>5. \A p \in Creators : creator[p].date \in Days
      BY <1>1 DEF CreatorMemory
    <2>6. \A p \in Creators : KnowsItsDate(creator[p])'
      BY <1>2, <2>4, <2>5 DEF StableInv, KnowsItsDate
    <2>7. QED
      BY <2>3, <2>6 DEF StableInv
  <1>6. CASE EvaluatorDies(e)
    <2>1. UNCHANGED picks
      BY <1>6 DEF EvaluatorDies
    <2>2. \A f \in Evaluators, d \in Days :
              evaluator'[f] = evaluator[f] \/ evaluator'[f].pending[d] = {}
      BY <1>1, <1>3, <1>6 DEF EvaluatorDies
    <2>3. QED
      BY <1>2, <2>1, <2>2 DEF StableInv, CopiesMatchRows, KnowsItsDate, Picked, AllNotified
  <1>7. QED
    BY <1>4, <1>5, <1>6

LEMMA StableStep ==
    ASSUME \A p, q \in Creators : p = q, ForceFlags \subseteq {FALSE},
           SettledInv, StableInv, [Next]_vars
    PROVE  StableInv'
  <1>1. CASE \E p \in Creators : Create(p) \/ SlackFails(p) \/ CreatorDies(p)
    BY <1>1, StableCreate DEF SettledInv
  <1>2. CASE \E e \in Evaluators : BeginEvaluate(e) \/ CommitEvaluate(e) \/ EvaluatorDies(e)
    BY <1>2, StableEvaluate
  <1>3. CASE UNCHANGED <<picks, creator, evaluator>>
    BY <1>3 DEF StableInv, CopiesMatchRows, KnowsItsDate, Picked, AllNotified
  <1>4. QED
    BY <1>1, <1>2, <1>3
       DEF Next, RecordCorporateAction, MarketChanges, DayPasses, pickVars, vars

LEMMA StableAlways ==
    ASSUME \A p, q \in Creators : p = q, ForceFlags \subseteq {FALSE}
    PROVE  Spec => [](SettledInv /\ StableInv)
  <1>1. SettledInv /\ StableInv /\ [Next]_vars => StableInv'
    BY StableStep
  <1>2. QED
    BY <1>1, StableInit, SettledAlways, PTL DEF Spec

\* Every step leaves the ranks of a date that has a list.
LEMMA RanksStay ==
    ASSUME \A p, q \in Creators : p = q, SettledInv, StableInv, [Next]_vars,
           NEW d \in Days, Picked(d) # {}, NEW b \in Brands
    PROVE  picks'[d][b].rank = picks[d][b].rank
  <1>1. ASSUME NEW p \in Creators, Create(p) \/ SlackFails(p) \/ CreatorDies(p)
        PROVE  picks'[d][b].rank = picks[d][b].rank
    <2>1. CASE SavePicks(p)
      <3>1. creator[p].date # d
        BY <2>1 DEF SavePicks, StableInv, KnowsItsDate
      <3>2. picks \in [Days -> [Brands -> Rows]]
        BY DEF SettledInv, TypeOK
      <3>3. picks'[d] = picks[d]
        BY <2>1, <3>1, <3>2 DEF SavePicks
      <3>4. QED
        BY <3>3
    <2>2. CASE MarkNotified(p)
      BY <2>2, StableMark DEF SettledInv
    <2>3. CASE UNCHANGED picks
      BY <2>3
    <2>4. QED
      BY <1>1, <2>1, <2>2, <2>3
         DEF Create, BeginCreate, CheckExisting, Screen, SendBody, SlackFails, CreatorDies
  <1>2. ASSUME NEW e \in Evaluators, BeginEvaluate(e) \/ CommitEvaluate(e) \/ EvaluatorDies(e)
        PROVE  picks'[d][b].rank = picks[d][b].rank
    BY <1>2, CommitLeavesRanks DEF BeginEvaluate, EvaluatorDies
  <1>3. QED
    BY <1>1, <1>2
       DEF Next, RecordCorporateAction, MarketChanges, DayPasses, pickVars, vars

\* Without --force and with create processes that do not overlap, a date whose
\* rows are all marked is not being posted (notifyIfPending of
\* create_daily_stock_picks.go), however evaluations write back their copies.
THEOREM MarkedIsNotResent ==
    ASSUME \A p, q \in Creators : p = q, ForceFlags \subseteq {FALSE}
    PROVE  Spec => []NoResendOnceMarked
  <1>1. StableInv => NoResendOnceMarked
    BY DEF StableInv, KnowsItsDate, NoResendOnceMarked
  <1>2. QED
    BY <1>1, StableAlways, PTL

\* Under the same conditions a published list keeps its members and ranks for
\* good: the run that finds a list never rebuilds it, and an evaluation writes
\* back the ranks the rows still have (CreateDailyStockPicks, UpdateEvaluations).
THEOREM PublishedStays ==
    ASSUME \A p, q \in Creators : p = q, ForceFlags \subseteq {FALSE}
    PROVE  Spec => PublishedListIsStable
  <1>1. SettledInv /\ StableInv /\ [Next]_vars =>
            [\A d \in Days : Picked(d) # {} =>
                \A b \in Brands : picks'[d][b].rank = picks[d][b].rank]_vars
    BY RanksStay
  <1>2. QED
    BY <1>1, StableAlways, PTL DEF Spec, PublishedListIsStable

-----------------------------------------------------------------------------
(* What the API has shown of a day *)

\* A settled pick of a published list keeps its row, except for the mark, and a
\* mark stays.
SameResults(r, s) ==
    /\ s.rank = r.rank
    /\ s.filled = r.filled
    /\ s.outcome = r.outcome
    /\ s.evaluated = r.evaluated

LEMMA RowsStay ==
    ASSUME \A p, q \in Creators : p = q, SettledInv, LedgerInv, StableInv, [Next]_vars,
           NEW d \in Days, NEW b \in Picked(d)
    PROVE  /\ picks[d][b].evaluated => SameResults(picks[d][b], picks'[d][b])
           /\ picks[d][b].notified => picks'[d][b].notified
  <1> DEFINE Goal == /\ picks[d][b].evaluated => SameResults(picks[d][b], picks'[d][b])
                     /\ picks[d][b].notified => picks'[d][b].notified
  <1>1. b \in Brands /\ picks \in [Days -> [Brands -> Rows]] /\ picks[d][b] \in Rows
    BY DEF Picked, SettledInv, TypeOK
  <1>2. ASSUME picks'[d][b] = picks[d][b] PROVE Goal
    BY <1>2 DEF SameResults
  <1>3. ASSUME NEW p \in Creators, SavePicks(p) PROVE Goal
    <2>1. creator[p].date # d
      BY <1>3 DEF SavePicks, StableInv, KnowsItsDate
    <2>2. picks'[d] = picks[d]
      BY <1>1, <1>3, <2>1 DEF SavePicks
    <2>3. QED
      BY <1>2, <2>2
  <1>4. ASSUME NEW p \in Creators, MarkNotified(p) PROVE Goal
    <2> DEFINE date == creator[p].date
               row(x) == IF x \in Picked(date) THEN [picks[date][x] EXCEPT !.notified = TRUE]
                         ELSE picks[date][x]
    <2>1. picks' = [picks EXCEPT ![date] = [x \in Brands |-> row(x)]]
      BY <1>4 DEF MarkNotified
    <2>2. date = d => SameResults(picks[d][b], row(b)) /\ row(b).notified
      BY <1>1 DEF Rows, SameResults
    <2> HIDE DEF row
    <2>3. CASE date = d
      <3>1. picks'[d][b] = row(b)
        BY <1>1, <2>1, <2>3
      <3>2. QED
        BY <2>2, <2>3, <3>1
    <2>4. CASE date # d
      <3>1. picks'[d][b] = picks[d][b]
        BY <1>1, <2>1, <2>4
      <3>2. QED
        BY <1>2, <3>1
    <2>5. QED
      BY <2>3, <2>4
  <1>5. ASSUME NEW e \in Evaluators, CommitEvaluate(e) PROVE Goal
    <2>1. picks'[d][b].notified <=> picks[d][b].notified
      BY <1>1, <1>5, CommitLeavesRanks
    <2>2. ASSUME picks[d][b].evaluated PROVE picks'[d][b] = picks[d][b]
      <3>1. picks[d][b].outcome # "null"
        BY <1>1, <2>2 DEF SettledInv, RowsAreSound, SoundRow
      <3>2. b \notin evaluator[e].pending[d]
        BY <3>1 DEF LedgerInv, HeldAreUnsettled
      <3>3. QED
        BY <1>1, <1>5, <3>2 DEF CommitEvaluate
    <2>3. QED
      BY <2>1, <2>2, <1>2
  <1> SUFFICES Goal
    OBVIOUS
  <1> HIDE DEF Goal
  <1>6. CASE \E p \in Creators : Create(p) \/ SlackFails(p) \/ CreatorDies(p)
    <2>1. (\E p \in Creators : SavePicks(p) \/ MarkNotified(p)) \/ UNCHANGED picks
      BY <1>6 DEF Create, BeginCreate, CheckExisting, Screen, SendBody, SlackFails, CreatorDies
    <2>2. QED
      BY <1>2, <1>3, <1>4, <2>1
  <1>7. CASE \E e \in Evaluators : BeginEvaluate(e) \/ CommitEvaluate(e) \/ EvaluatorDies(e)
    <2>1. (\E e \in Evaluators : CommitEvaluate(e)) \/ UNCHANGED picks
      BY <1>7 DEF BeginEvaluate, EvaluatorDies
    <2>2. QED
      BY <1>2, <1>5, <2>1
  <1>8. CASE UNCHANGED picks
    BY <1>2, <1>8
  <1>9. QED
    BY <1>6, <1>7, <1>8
       DEF Next, RecordCorporateAction, MarketChanges, DayPasses, pickVars, vars

\* The picks of a set of days are finitely many.
LEMMA PicksAreFinite ==
    ASSUME NEW dates, dates \subseteq Days
    PROVE  IsFiniteSet(PicksOf(dates)) /\ Cardinality(PicksOf(dates)) \in Nat
  <1>1. IsFiniteSet(dates) /\ IsFiniteSet(Brands)
    BY PricesAreFinite, BrandsAssumption
  <1>2. IsFiniteSet(dates \X Brands)
    BY <1>1, FS_Product
  <1>3. IsFiniteSet(PicksOf(dates))
    BY <1>2, FS_Subset DEF PicksOf
  <1>4. QED
    BY <1>3, FS_CardinalityType

\* SummarizeDailyPicksForView counts a day as evaluated when all its picks are.
LEMMA EvaluatedDay ==
    ASSUME NEW d \in Days
    PROVE  Day(d).evaluated <=> \A b \in Picked(d) : picks[d][b].evaluated
  <1> DEFINE K == PicksOf({d})
             E == {k \in K : RowOf(k).evaluated}
  <1>1. IsFiniteSet(K) /\ E \in SUBSET K
    BY PicksAreFinite
  <1>2. Day(d).evaluated <=> Cardinality(E) = Cardinality(K)
    BY DEF Day, Summary
  <1>3. Cardinality(E) = Cardinality(K) <=> E = K
    BY <1>1, FS_Subset
  <1>4. \A b \in Picked(d) : <<d, b>> \in K /\ RowOf(<<d, b>>) = picks[d][b]
    BY DEF PicksOf, RowOf, Picked
  <1>5. \A k \in K : k[2] \in Picked(d) /\ RowOf(k) = picks[d][k[2]]
    BY DEF PicksOf, RowOf
  <1>6. E = K <=> \A b \in Picked(d) : picks[d][b].evaluated
    BY <1>4, <1>5
  <1>7. QED
    BY <1>2, <1>3, <1>6

LEMMA ShownStep ==
    ASSUME \A p, q \in Creators : p = q, SettledInv, LedgerInv, StableInv, [Next]_vars,
           NEW d \in DatesWithPicks
    PROVE  /\ Day(d).evaluated => Day(d)'.evaluated /\ Day(d)'.summary = Day(d).summary
           /\ Day(d).notified => Day(d)'.notified
  <1>1. d \in Days /\ Picked(d) # {}
    BY DEF DatesWithPicks
  <1>2. \A b \in Brands : picks'[d][b].rank = picks[d][b].rank
    BY <1>1, RanksStay
  <1>3. Picked(d)' = Picked(d)
    BY <1>2 DEF Picked
  <1>4. ASSUME Day(d).evaluated
        PROVE  Day(d)'.evaluated /\ Day(d)'.summary = Day(d).summary
    <2>1. \A b \in Picked(d) : picks[d][b].evaluated
      BY <1>1, <1>4, EvaluatedDay
    <2>2. \A b \in Picked(d) : SameResults(picks[d][b], picks'[d][b])
      BY <1>1, <2>1, RowsStay
    <2> DEFINE K == PicksOf({d})
    <2>3. PicksOf({d})' = K
      BY <1>3 DEF PicksOf
    <2>4. \A k \in K : SameResults(RowOf(k), RowOf(k)')
      BY <2>2 DEF PicksOf, RowOf
    <2> HIDE DEF K
    <2>5. \A o : {k \in K : RowOf(k).outcome = o}' = {k \in K : RowOf(k).outcome = o}
      BY <2>3, <2>4 DEF SameResults, K
    <2>6. {k \in K : RowOf(k).evaluated}' = {k \in K : RowOf(k).evaluated}
      BY <2>3, <2>4 DEF SameResults, K
    <2>7. \A h \in Horizons :
              {k \in K : h \in RowOf(k).filled}' = {k \in K : h \in RowOf(k).filled}
      BY <2>3, <2>4 DEF SameResults, K
    <2>8. Summary(K)' = Summary(K)
      BY <2>3, <2>5, <2>6, <2>7 DEF Summary, With, K
    <2>9. Day(d)'.summary = Day(d).summary
      BY <2>8 DEF Day, K
    <2>10. Day(d)'.evaluated
      BY <1>4, <2>8 DEF Day, K
    <2>11. QED
      BY <2>9, <2>10
  <1>5. ASSUME Day(d).notified
        PROVE  Day(d)'.notified
    <2>1. PICK b \in Picked(d) : /\ picks[d][b].notified
                                 /\ \A x \in Picked(d) : picks[d][b].rank <= picks[d][x].rank
      BY <1>5 DEF Day
    <2>2. picks'[d][b].notified
      BY <1>1, <2>1, RowsStay
    <2>3. b \in Brands /\ Picked(d) \subseteq Brands
      BY DEF Picked
    <2>4. \A x \in Picked(d) : picks'[d][b].rank <= picks'[d][x].rank
      BY <1>2, <2>1, <2>3
    <2>5. \E y \in Picked(d)' : /\ picks'[d][y].notified
                                /\ \A x \in Picked(d)' : picks'[d][y].rank <= picks'[d][x].rank
      BY <1>3, <2>2, <2>4
    <2>6. QED
      BY <2>5 DEF Day
  <1>6. QED
    BY <1>4, <1>5

\* A day once shown as evaluated or as notified (GetDay) is shown so ever after,
\* and an evaluated one with the same figures, when runs of a command do not
\* overlap and nobody uses --force: no run replaces the list, and an evaluation
\* holds no row that is settled.
THEOREM ShownStays ==
    ASSUME \A p, q \in Creators : p = q, \A e, f \in Evaluators : e = f,
           ForceFlags \subseteq {FALSE}
    PROVE  Spec => ShownDaysAreFinal
  <1>1. SettledInv /\ LedgerInv /\ StableInv /\ [Next]_vars =>
            [picks' = picks \/ \A d \in DatesWithPicks :
                /\ Day(d).evaluated => Day(d)'.evaluated /\ Day(d)'.summary = Day(d).summary
                /\ Day(d).notified => Day(d)'.notified]_vars
    BY ShownStep
  <1>2. QED
    BY <1>1, StableAlways, LedgerAlways, PTL DEF Spec, ShownDaysAreFinal

-----------------------------------------------------------------------------
(* The bar the returns start from *)

BarsArePast == \A b \in Brands : \A x \in bars[b] : x <= today

\* A picked symbol has its bar of the pick date, which is no later day.
PickDateHasBar ==
    \A d \in Days : \A b \in Picked(d) : d \in bars[b] /\ d <= today

\* The trading dates of the window a run screens, as they are now.
Window(c) == TradingDates \cap (c.from .. c.date)

\* Between the two reads the window gains no trading date, so that a symbol
\* with as many bars as the window once had dates has the bar of the last one.
WindowIsFull(c) ==
    /\ c.pc # "idle" => c.date <= today
    /\ c.pc \in {"check", "screen"} =>
           c.date \in Window(c) /\ Cardinality(Window(c)) <= WarmUp
    /\ c.pc = "save" => \A b \in Brands : c.ranks[b] > 0 => c.date \in bars[b]

PendingIsPast ==
    \A e \in Evaluators, d \in Days :
        evaluator[e].pending[d] # {} => d <= evaluator[e].now

BasedInv ==
    /\ BarsArePast
    /\ PickDateHasBar
    /\ \A p \in Creators : WindowIsFull(creator[p])
    /\ PendingIsPast
    /\ BaseIsPickDate

LEMMA BasedInit == Init => BasedInv
  <1> SUFFICES ASSUME Init PROVE BasedInv
    OBVIOUS
  <1>0. \A b \in Brands : bars[b] = {}
    BY DEF Init, MarketInit
  <1>1. \A d \in Days : Picked(d) = {}
    BY FreshRowType DEF Init, Picked, NoRow
  <1>2. \A p \in Creators : creator[p].pc = "idle"
    BY DEF Init, IdleCreator
  <1>3. \A e \in Evaluators, d \in Days : evaluator[e].pending[d] = {}
    BY DEF Init, IdleEvaluator
  <1>4. QED
    BY <1>0, <1>1, <1>2, <1>3
       DEF BasedInv, BarsArePast, PickDateHasBar, WindowIsFull, PendingIsPast, BaseIsPickDate

\* ListRecentTradingDates: from the first of the latest n dates on there are at
\* most n trading dates.
LEMMA RecentAreFew ==
    ASSUME MarketTypeOK, NEW from \in RecentDates(WarmUp), NEW date, IsLatest(date)
    PROVE  /\ date \in TradingDates \cap (from .. date)
           /\ Cardinality(TradingDates \cap (from .. date)) <= WarmUp
  <1> DEFINE Later == {x \in TradingDates : x > from}
  <1>1. TradingDates \subseteq Days /\ from \in TradingDates /\ date \in TradingDates
    BY TradingDatesAreDays DEF RecentDates, IsLatest
  <1>2. from \in Int /\ date \in Int /\ from <= date
    BY <1>1 DEF IsLatest, Days
  <1>3. IsFiniteSet(Later) /\ Cardinality(Later) \in Nat /\ Cardinality(Later) < WarmUp
    BY <1>1, PricesAreFinite DEF RecentDates
  <1>4. TradingDates \cap (from .. date) \subseteq Later \cup {from}
    BY <1>1, <1>2 DEF Days
  <1> HIDE DEF Later
  <1>5. IsFiniteSet(Later \cup {from}) /\ Cardinality(Later \cup {from}) <= WarmUp
    <2>1. /\ IsFiniteSet(Later \cup {from})
          /\ \/ Cardinality(Later \cup {from}) = Cardinality(Later)
             \/ Cardinality(Later \cup {from}) = Cardinality(Later) + 1
      BY <1>3, FS_AddElement
    <2>2. QED
      BY <1>3, <2>1, SizesAssumption
  <1>6. Cardinality(Later \cup {from}) \in Nat
    BY <1>5, FS_CardinalityType
  <1>7. /\ Cardinality(TradingDates \cap (from .. date)) \in Nat
        /\ Cardinality(TradingDates \cap (from .. date)) <= Cardinality(Later \cup {from})
    BY <1>4, <1>5, FS_Subset, FS_CardinalityType
  <1>8. date \in from .. date
    BY <1>2
  <1>9. QED
    BY <1>1, <1>5, <1>6, <1>7, <1>8, SizesAssumption

\* EvaluateDailyPickCandidate: a symbol with a full window of bars has one on
\* every trading date of the window.
LEMMA CandidatesHaveTheDate ==
    ASSUME MarketTypeOK, NEW from, NEW date,
           date \in TradingDates \cap (from .. date),
           Cardinality(TradingDates \cap (from .. date)) <= WarmUp,
           NEW b \in Candidates(from, date)
    PROVE  date \in bars[b]
  <1> DEFINE W == TradingDates \cap (from .. date)
             S == bars[b] \cap (from .. date)
  <1>1. b \in Brands /\ Cardinality(S) >= WarmUp
    BY DEF Candidates, MarketTypeOK
  <1>2. S \subseteq W
    BY <1>1 DEF TradingDates
  <1>3. IsFiniteSet(W) /\ Cardinality(W) \in Nat
    BY TradingDatesAreDays, PricesAreFinite
  <1>4. IsFiniteSet(S) /\ Cardinality(S) \in Nat
    BY <1>2, <1>3, FS_Subset, FS_CardinalityType
  <1> HIDE DEF S
  <1>5. S \in SUBSET W /\ Cardinality(S) <= Cardinality(W)
    BY <1>2, <1>3, FS_Subset
  <1>6. Cardinality(S) = Cardinality(W)
    BY <1>1, <1>3, <1>4, <1>5, SizesAssumption
  <1>7. W = S
    BY <1>3, <1>5, <1>6, FS_Subset
  <1>8. QED
    BY <1>7 DEF S

LEMMA SameWindows ==
    ASSUME UNCHANGED marketVars, \A q \in Creators : WindowIsFull(creator'[q])
    PROVE  (\A q \in Creators : WindowIsFull(creator[q]))'
  BY DEF WindowIsFull, Window, TradingDates, marketVars

\* Steps of a create process that write no row.
LEMMA BasedByCreator ==
    ASSUME TypeOK, BasedInv, NEW p \in Creators,
           NEW c, creator' = [creator EXCEPT ![p] = c], WindowIsFull(c),
           UNCHANGED <<marketVars, picks, evaluator>>
    PROVE  BasedInv'
  <1>1. \A q \in Creators : creator'[q] = c \/ creator'[q] = creator[q]
    BY DEF TypeOK
  <1>2. \A q \in Creators : WindowIsFull(creator'[q])
    BY <1>1 DEF BasedInv
  <1>3. (\A q \in Creators : WindowIsFull(creator[q]))'
    BY <1>2, SameWindows
  <1>4. QED
    BY <1>3 DEF BasedInv, BarsArePast, PickDateHasBar, PendingIsPast, BaseIsPickDate, Picked, marketVars

LEMMA BasedCreate ==
    ASSUME TypeOK, BasedInv, NEW p \in Creators,
           Create(p) \/ SlackFails(p) \/ CreatorDies(p)
    PROVE  BasedInv'
  <1> DEFINE c == creator[p]
  <1>1. /\ creator \in [Creators -> CreatorMemory]
        /\ c \in CreatorMemory
        /\ MarketTypeOK
        /\ picks \in [Days -> [Brands -> Rows]]
    BY DEF TypeOK, CreatorMemory
  <1>2. c.date \in Days /\ c.ranks \in [Brands -> Nat]
    BY <1>1 DEF CreatorMemory
  <1>3. WindowIsFull(c)
    BY DEF BasedInv
  <1>4. WindowIsFull(IdleCreator)
    BY DEF WindowIsFull, IdleCreator
  <1>5. ASSUME NEW force \in ForceFlags, BeginCreate(p, force) PROVE BasedInv'
    <2>1. PICK date \in TradingDates, from \in RecentDates(WarmUp) :
              /\ IsLatest(date)
              /\ creator' = [creator EXCEPT ![p] =
                 [IdleCreator EXCEPT !.pc = IF force THEN "screen" ELSE "check",
                                     !.date = date,
                                     !.from = from]]
      BY <1>5 DEF BeginCreate
    <2> DEFINE m == [IdleCreator EXCEPT !.pc = IF force THEN "screen" ELSE "check",
                                        !.date = date,
                                        !.from = from]
    <2>2. m.pc \in {"screen", "check"} /\ m.date = date /\ m.from = from
      BY DEF IdleCreator
    <2> HIDE DEF m
    <2>3. date <= today
      BY <2>1 DEF BasedInv, BarsArePast, IsLatest, TradingDates
    <2>4. WindowIsFull(m)
      BY <1>1, <2>1, <2>2, <2>3, RecentAreFew DEF WindowIsFull, Window
    <2>5. creator' = [creator EXCEPT ![p] = m]
          /\ UNCHANGED <<marketVars, picks, evaluator>>
      BY <1>5, <2>1 DEF m, BeginCreate
    <2>6. QED
      BY <2>4, <2>5, BasedByCreator
  <1>6. CASE CheckExisting(p)
    <2> DEFINE m == IF Picked(c.date) = {} THEN [c EXCEPT !.pc = "screen"]
                    ELSE IF AllNotified(c.date) THEN IdleCreator
                    ELSE [c EXCEPT !.pc = "send",
                             !.ranks = [b \in Brands |-> picks[c.date][b].rank],
                             !.unsent = Picked(c.date)]
    <2>1. creator' = [creator EXCEPT ![p] = m] /\ UNCHANGED <<marketVars, picks, evaluator>>
      BY <1>1, <1>6 DEF CheckExisting
    <2>2. \/ m.pc = "screen" /\ m.date = c.date /\ m.from = c.from
          \/ m = IdleCreator
          \/ m.pc = "send" /\ m.date = c.date
      BY <1>1 DEF CreatorMemory
    <2>3. c.pc = "check"
      BY <1>6 DEF CheckExisting
    <2> HIDE DEF m
    <2>4. WindowIsFull(m)
      BY <1>3, <1>4, <2>2, <2>3 DEF WindowIsFull, Window
    <2>5. QED
      BY <2>1, <2>4, BasedByCreator
  <1>7. CASE Screen(p)
    <2>1. PICK r \in Rankings(Candidates(c.from, c.date)) :
              creator' = [creator EXCEPT ![p] =
                 IF r = NoRanks THEN IdleCreator
                 ELSE [c EXCEPT !.pc = "save", !.ranks = r]]
      BY <1>1, <1>7 DEF Screen
    <2>2. c.pc = "screen" /\ UNCHANGED <<marketVars, picks, evaluator>>
      BY <1>7 DEF Screen
    <2>3. \A b \in Brands : r[b] > 0 => b \in Candidates(c.from, c.date)
      BY <2>1 DEF Rankings
    <2>4. \A b \in Brands : r[b] > 0 => c.date \in bars[b]
      BY <1>1, <1>3, <2>2, <2>3, CandidatesHaveTheDate DEF WindowIsFull, Window
    <2> DEFINE m == IF r = NoRanks THEN IdleCreator ELSE [c EXCEPT !.pc = "save", !.ranks = r]
    <2>5. m = IdleCreator \/ (m.pc = "save" /\ m.date = c.date /\ m.ranks = r)
      BY <1>1 DEF CreatorMemory
    <2>6. creator' = [creator EXCEPT ![p] = m]
      BY <2>1
    <2> HIDE DEF m
    <2>7. WindowIsFull(m)
      BY <1>3, <1>4, <2>2, <2>4, <2>5 DEF WindowIsFull
    <2>8. QED
      BY <2>2, <2>6, <2>7, BasedByCreator
  <1>8. CASE SavePicks(p)
    <2> DEFINE row == [b \in Brands |-> FreshRow(c.ranks[b])]
    <2>1. /\ c.pc = "save"
          /\ picks' = [picks EXCEPT ![c.date] = row]
          /\ creator' = [creator EXCEPT ![p].pc = "send",
                                        ![p].unsent = {b \in Brands : c.ranks[b] > 0}]
          /\ UNCHANGED <<marketVars, evaluator>>
      BY <1>8 DEF SavePicks
    <2>2. \A b \in Brands : row[b].rank = c.ranks[b] /\ row[b].outcome = "null"
      BY <1>2, FreshRowType
    <2> HIDE DEF row
    <2>3. \A d \in Days : picks'[d] = IF d = c.date THEN row ELSE picks[d]
      BY <1>1, <1>2, <2>1
    <2>4. \A b \in Brands : row[b].rank > 0 => c.date \in bars[b] /\ c.date <= today
      BY <1>3, <2>1, <2>2 DEF WindowIsFull
    <2>5. PickDateHasBar'
      BY <1>2, <2>1, <2>3, <2>4 DEF BasedInv, PickDateHasBar, Picked, marketVars
    <2>6. BaseIsPickDate'
      BY <1>2, <2>2, <2>3 DEF BasedInv, BaseIsPickDate, Picked, Judged
    <2>7. creator'[p].pc = "send" /\ creator'[p].date = c.date
      BY <1>1, <2>1 DEF CreatorMemory
    <2>8. \A q \in Creators : q # p => creator'[q] = creator[q]
      BY <1>1, <2>1
    <2>9. \A q \in Creators : WindowIsFull(creator'[q])
      BY <1>3, <2>1, <2>7, <2>8 DEF BasedInv, WindowIsFull
    <2>10. (\A q \in Creators : WindowIsFull(creator[q]))'
      BY <2>1, <2>9, SameWindows
    <2>11. BarsArePast' /\ PendingIsPast'
      BY <2>1 DEF BasedInv, BarsArePast, PendingIsPast, marketVars
    <2>12. QED
      BY <2>5, <2>6, <2>10, <2>11 DEF BasedInv
  <1>9. CASE SendBody(p)
    <2>1. PICK B \in Bodies(c) :
              creator' = [creator EXCEPT ![p].unsent = @ \ B,
                                         ![p].pc = IF c.unsent = B THEN "mark" ELSE "send"]
      BY <1>9 DEF SendBody
    <2>2. c.pc = "send" /\ UNCHANGED <<marketVars, picks, evaluator>>
      BY <1>9 DEF SendBody
    <2> DEFINE m == [c EXCEPT !.unsent = @ \ B,
                              !.pc = IF c.unsent = B THEN "mark" ELSE "send"]
    <2>3. creator' = [creator EXCEPT ![p] = m]
      BY <1>1, <2>1
    <2>4. m.date = c.date /\ m.pc \in {"mark", "send"}
      BY <1>1 DEF CreatorMemory
    <2> HIDE DEF m
    <2>5. WindowIsFull(m)
      BY <1>3, <2>2, <2>4 DEF WindowIsFull
    <2>6. QED
      BY <2>2, <2>3, <2>5, BasedByCreator
  <1>10. CASE MarkNotified(p)
    <2> DEFINE row(b) == IF b \in Picked(c.date)
                         THEN [picks[c.date][b] EXCEPT !.notified = TRUE]
                         ELSE picks[c.date][b]
    <2>1. /\ picks' = [picks EXCEPT ![c.date] = [b \in Brands |-> row(b)]]
          /\ creator' = [creator EXCEPT ![p] = IdleCreator]
          /\ UNCHANGED <<marketVars, evaluator>>
      BY <1>10 DEF MarkNotified
    <2>2. \A b \in Brands : /\ row(b).rank = picks[c.date][b].rank
                            /\ row(b).outcome = picks[c.date][b].outcome
                            /\ row(b).based = picks[c.date][b].based
      BY <1>1, <1>2 DEF Rows
    <2> HIDE DEF row
    <2>3. \A d \in Days, b \in Brands : /\ picks'[d][b].rank = picks[d][b].rank
                                        /\ picks'[d][b].outcome = picks[d][b].outcome
                                        /\ picks'[d][b].based = picks[d][b].based
      BY <1>1, <1>2, <2>1, <2>2
    <2>4. PickDateHasBar' /\ BaseIsPickDate'
      BY <2>1, <2>3 DEF BasedInv, PickDateHasBar, BaseIsPickDate, Picked, marketVars
    <2>5. \A q \in Creators : creator'[q] = IdleCreator \/ creator'[q] = creator[q]
      BY <1>1, <2>1
    <2>6. \A q \in Creators : WindowIsFull(creator'[q])
      BY <1>4, <2>5 DEF BasedInv
    <2>7. (\A q \in Creators : WindowIsFull(creator[q]))'
      BY <2>1, <2>6, SameWindows
    <2>8. BarsArePast' /\ PendingIsPast'
      BY <2>1 DEF BasedInv, BarsArePast, PendingIsPast, marketVars
    <2>9. QED
      BY <2>4, <2>7, <2>8 DEF BasedInv
  <1>11. CASE SlackFails(p) \/ CreatorDies(p)
    BY <1>4, <1>11, BasedByCreator DEF SlackFails, CreatorDies
  <1>12. QED
    BY <1>5, <1>6, <1>7, <1>8, <1>9, <1>10, <1>11 DEF Create

\* What an evaluation makes of a row whose symbol has the bar of the pick date:
\* its returns start from that bar unless it is void.
LEMMA EvaluateBased ==
    ASSUME NEW r \in Rows, NEW b \in Brands, NEW d \in Days, NEW now, NEW gain,
           d \in PricesFrom(b, d, now)
    PROVE  \/ Evaluate(r, b, d, now, gain).outcome = "void"
           \/ Evaluate(r, b, d, now, gain).based
  <1> DEFINE P == PricesFrom(b, d, now)
             partial == [r EXCEPT !.filled = Reached(P), !.based = (d \in P)]
             full == [partial EXCEPT !.gain = gain]
  <1>1. d \in P /\ P # {}
    OBVIOUS
  <1> HIDE DEF P
  <1>2. partial.based /\ full.based
    BY <1>1 DEF Rows
  <1>3. /\ \A o : Settle(partial, o).based /\ Settle(full, o).based
    <2>1. \A o : Settle(partial, o).based = partial.based /\ Settle(full, o).based = full.based
      BY DEF Settle, Rows
    <2>2. QED
      BY <1>2, <2>1
  <1> HIDE DEF partial, full
  <1>4. Evaluate(r, b, d, now, gain) \in
            {Settle(r, "void"), Settle(partial, "void"), partial,
             Settle(full, "void"), Settle(full, Judge(gain))}
    BY DEF Evaluate, P, partial, full
  <1>5. Settle(r, "void").outcome = "void"
    BY DEF Settle, Rows
  <1>6. QED
    BY <1>2, <1>3, <1>4, <1>5

LEMMA BasedEvaluate ==
    ASSUME SettledInv, BasedInv, NEW e \in Evaluators,
           BeginEvaluate(e) \/ CommitEvaluate(e) \/ EvaluatorDies(e)
    PROVE  BasedInv'
  <1>1. /\ evaluator \in [Evaluators -> EvaluatorMemory]
        /\ picks \in [Days -> [Brands -> Rows]]
        /\ bars \in [Brands -> SUBSET Days]
        /\ today \in Days
    BY DEF SettledInv, TypeOK, EvaluatorMemory, MarketTypeOK
  <1>2. UNCHANGED <<marketVars, creator>>
    BY DEF BeginEvaluate, CommitEvaluate, EvaluatorDies
  <1>3. BarsArePast' /\ (\A p \in Creators : WindowIsFull(creator[p]))'
    BY <1>2 DEF BasedInv, BarsArePast, WindowIsFull, Window, TradingDates, marketVars
  <1>4. \A d \in Days : IdleEvaluator.pending[d] = {}
    BY DEF IdleEvaluator
  <1>5. CASE BeginEvaluate(e)
    <2>1. ASSUME NEW f \in Evaluators, NEW d \in Days, evaluator'[f].pending[d] # {}
          PROVE  d <= evaluator'[f].now
      <3>1. CASE evaluator'[f] = evaluator[f]
        BY <2>1, <3>1 DEF BasedInv, PendingIsPast
      <3>2. CASE evaluator'[f] # evaluator[f]
        <4>1. /\ evaluator'[f].pending[d] = PendingSince(today, d)
              /\ evaluator'[f].now = today
          BY <1>1, <1>5, <3>2 DEF BeginEvaluate
        <4>2. Picked(d) # {}
          BY <2>1, <4>1 DEF PendingSince, Pending
        <4>3. QED
          BY <4>1, <4>2 DEF BasedInv, PickDateHasBar
      <3>3. QED
        BY <3>1, <3>2
    <2>2. PendingIsPast'
      BY <2>1 DEF PendingIsPast
    <2>3. UNCHANGED picks
      BY <1>5 DEF BeginEvaluate
    <2>4. QED
      BY <1>2, <1>3, <2>2, <2>3
         DEF BasedInv, PickDateHasBar, BaseIsPickDate, Picked, marketVars
  <1>6. ASSUME \A f \in Evaluators, d \in Days :
                   evaluator'[f] = evaluator[f] \/ evaluator'[f].pending[d] = {}
        PROVE  PendingIsPast'
    BY <1>6 DEF BasedInv, PendingIsPast
  <1>7. CASE CommitEvaluate(e)
    <2> DEFINE v == evaluator[e]
    <2>1. PICK gain \in [Brands -> Moves] :
            picks' = [dd \in Days |-> [bb \in Brands |->
                IF bb \in v.pending[dd] /\ HasUpdate(bb, dd, v.now)
                THEN Overwrite(picks[dd][bb],
                        Evaluate(v.copy[dd][bb], bb, dd, v.now, gain[bb]))
                ELSE picks[dd][bb]]]
      BY <1>7 DEF CommitEvaluate
    <2>2. ASSUME NEW d \in Days, NEW b \in Brands, picks'[d][b].rank > 0
          PROVE  /\ picks[d][b].rank > 0
                 /\ picks'[d][b].outcome \in Judged => picks'[d][b].based
      <3> DEFINE u == Evaluate(v.copy[d][b], b, d, v.now, gain[b])
                 row == picks[d][b]
      <3>1. picks'[d][b] = IF b \in v.pending[d] /\ HasUpdate(b, d, v.now)
                           THEN Overwrite(row, u) ELSE row
        BY <2>1
      <3>2. v.copy[d][b] \in Rows /\ v.now \in Days /\ row.rank \in Nat
        BY <1>1 DEF EvaluatorMemory, Rows
      <3> HIDE DEF u, row
      <3>3. row.rank > 0 => d \in bars[b] /\ (row.outcome \in Judged => row.based)
        BY DEF BasedInv, PickDateHasBar, BaseIsPickDate, Picked, row
      <3>4. CASE picks'[d][b] = row
        BY <2>2, <3>3, <3>4 DEF row
      <3>5. CASE row.rank > 0 /\ b \in v.pending[d] /\ picks'[d][b] = Overwrite(row, u)
        <4>1. d <= v.now
          BY <3>5 DEF BasedInv, PendingIsPast
        <4>2. d \in PricesFrom(b, d, v.now)
          BY <3>2, <3>3, <3>5, <4>1 DEF PricesFrom, Days
        <4>3. u.outcome = "void" \/ u.based
          BY <3>2, <4>2, EvaluateBased DEF u
        <4>4. /\ u.based => picks'[d][b].based
              /\ u.outcome = "void" => picks'[d][b].outcome = "void"
          BY <3>2, <3>5 DEF Overwrite
        <4>5. QED
          BY <3>5, <4>3, <4>4 DEF row, Judged
      <3>6. row.rank = 0 => Overwrite(row, u) = row
        BY DEF Overwrite
      <3>7. QED
        BY <3>1, <3>2, <3>4, <3>5, <3>6
    <2>3. PickDateHasBar' /\ BaseIsPickDate'
      BY <1>2, <2>2 DEF BasedInv, PickDateHasBar, BaseIsPickDate, Picked, marketVars
    <2>4. PendingIsPast'
      BY <1>1, <1>4, <1>6, <1>7 DEF CommitEvaluate
    <2>5. QED
      BY <1>3, <2>3, <2>4 DEF BasedInv
  <1>8. CASE EvaluatorDies(e)
    <2>1. UNCHANGED picks
      BY <1>8 DEF EvaluatorDies
    <2>2. PendingIsPast'
      BY <1>1, <1>4, <1>6, <1>8 DEF EvaluatorDies
    <2>3. QED
      BY <1>2, <1>3, <2>1, <2>2
         DEF BasedInv, PickDateHasBar, BaseIsPickDate, Picked, marketVars
  <1>9. QED
    BY <1>5, <1>7, <1>8

\* The price batch, when a day's bars are stored on that day.
LEMMA BasedIngestion ==
    ASSUME Lookback = 0, TypeOK, BasedInv, Ingestion, UNCHANGED pickVars
    PROVE  BasedInv'
  <1>1. PICK d \in Days, S \in SUBSET Brands : IngestDay(d, S)
    BY DEF Ingestion
  <1>2. MarketTypeOK /\ today \in Days /\ bars \in [Brands -> SUBSET Days]
    BY DEF TypeOK, MarketTypeOK
  <1>3. d = today /\ today' = today
    BY <1>1, <1>2 DEF IngestDay, Days
  <1>4. \A b \in Brands : bars[b] \subseteq bars'[b] /\ bars'[b] \subseteq bars[b] \cup {today}
    BY <1>1, <1>2, <1>3 DEF IngestDay
  <1>5. BarsArePast'
    BY <1>2, <1>3, <1>4 DEF BasedInv, BarsArePast, Days
  <1>6. UNCHANGED <<picks, creator, evaluator>>
    BY DEF pickVars
  <1>7. PickDateHasBar' /\ PendingIsPast' /\ BaseIsPickDate'
    BY <1>3, <1>4, <1>6 DEF BasedInv, PickDateHasBar, PendingIsPast, BaseIsPickDate, Picked
  <1>8. ASSUME NEW p \in Creators
        PROVE  WindowIsFull(creator[p])'
    <2> DEFINE c == creator[p]
    <2>1. WindowIsFull(c) /\ c.date \in Days /\ c.from \in Days
      BY DEF BasedInv, TypeOK
    <2>2. TradingDates \subseteq TradingDates' /\ TradingDates' \subseteq TradingDates \cup {today}
      BY <1>4 DEF TradingDates
    <2>3. ASSUME c.pc \in {"check", "screen"}
          PROVE  Window(c)' = Window(c)
      <3>1. c.date <= today /\ c.date \in Window(c)
        BY <2>1, <2>3 DEF WindowIsFull
      <3>2. today \in c.from .. c.date => today = c.date
        BY <1>2, <2>1, <3>1 DEF Days
      <3>3. today \in c.from .. c.date => today \in TradingDates
        BY <3>1, <3>2 DEF Window
      <3>4. TradingDates' \cap (c.from .. c.date) = TradingDates \cap (c.from .. c.date)
        BY <2>2, <3>3
      <3>5. QED
        BY <1>6, <3>4 DEF Window
    <2>4. c.ranks \in [Brands -> Nat]
      BY DEF TypeOK
    <2>5. QED
      BY <1>3, <1>4, <1>6, <2>1, <2>3 DEF WindowIsFull
  <1>9. QED
    BY <1>5, <1>7, <1>8 DEF BasedInv

LEMMA BasedDay ==
    ASSUME TypeOK, BasedInv, NextDay, UNCHANGED pickVars
    PROVE  BasedInv'
  <1>1. today \in Int /\ today' = today + 1 /\ UNCHANGED bars
    BY DEF NextDay, TypeOK, MarketTypeOK, Days
  <1>2. \A x \in Int : x <= today => x <= today'
    BY <1>1
  <1>3. UNCHANGED <<picks, creator, evaluator>>
    BY DEF pickVars
  <1>4. bars \in [Brands -> SUBSET Int] /\ \A p \in Creators : creator[p].date \in Int
    BY DEF TypeOK, MarketTypeOK, Days
  <1>5. BarsArePast' /\ PickDateHasBar' /\ PendingIsPast' /\ BaseIsPickDate'
    BY <1>1, <1>2, <1>3, <1>4
       DEF BasedInv, BarsArePast, PickDateHasBar, PendingIsPast, BaseIsPickDate, Picked, Days
  <1>6. (\A p \in Creators : WindowIsFull(creator[p]))'
    BY <1>1, <1>2, <1>3, <1>4 DEF BasedInv, WindowIsFull, Window, TradingDates
  <1>7. QED
    BY <1>5, <1>6 DEF BasedInv

LEMMA BasedStep ==
    ASSUME Relists = FALSE, Lookback = 0, SettledInv, BasedInv, [Next]_vars
    PROVE  BasedInv'
  <1>1. TypeOK
    BY DEF SettledInv
  <1>2. CASE \E p \in Creators : Create(p) \/ SlackFails(p) \/ CreatorDies(p)
    BY <1>1, <1>2, BasedCreate
  <1>3. CASE \E e \in Evaluators : BeginEvaluate(e) \/ CommitEvaluate(e) \/ EvaluatorDies(e)
    BY <1>3, BasedEvaluate
  <1>4. CASE MarketChanges
    BY <1>1, <1>4, BasedIngestion DEF MarketChanges
  <1>5. CASE DayPasses
    BY <1>1, <1>5, BasedDay DEF DayPasses
  <1>6. CASE UNCHANGED <<marketVars, picks, creator, evaluator>>
    BY <1>6 DEF BasedInv, BarsArePast, PickDateHasBar, WindowIsFull, Window, TradingDates,
                PendingIsPast, BaseIsPickDate, Picked, marketVars
  <1>7. QED
    BY <1>2, <1>3, <1>4, <1>5, <1>6
       DEF Next, RecordCorporateAction, vars, marketVars

\* A judged pick was measured from the bar of its own pick date, the assumption
\* evaluateOnePick states before it calls ForwardReturns, for any number of
\* processes and with --force, as long as no bar is soft-deleted (no relisting)
\* and no bar of a past date is stored late.  Both conditions are needed: a late
\* bar between ListRecentTradingDates and the screening gives a symbol a full
\* window without the last date.
THEOREM JudgedFromPickDate ==
    ASSUME Relists = FALSE, Lookback = 0
    PROVE  Spec => []BaseIsPickDate
  <1>1. SettledInv /\ BasedInv /\ [Next]_vars => BasedInv'
    BY BasedStep
  <1>2. BasedInv => BaseIsPickDate
    BY DEF BasedInv
  <1>3. QED
    BY <1>1, <1>2, BasedInit, SettledAlways, PTL DEF Spec

-----------------------------------------------------------------------------
(* The figures of a range *)

\* The judged picks of a set of picks.
JudgedOf(K) == {k \in K : RowOf(k).outcome \in Judged}

LEMMA DecidedIsJudged ==
    ASSUME NEW K, IsFiniteSet(K)
    PROVE  Decided(Summary(K)) = Cardinality(JudgedOf(K))
  <1> DEFINE Of(o) == {k \in K : RowOf(k).outcome = o}
  <1>1. \A o : IsFiniteSet(Of(o))
    BY FS_Subset
  <1>2. Decided(Summary(K)) =
            Cardinality(Of("win")) + Cardinality(Of("lose")) + Cardinality(Of("draw"))
    BY DEF Decided, Summary, With
  <1>3. Of("win") \cap Of("lose") = {} /\ (Of("win") \cup Of("lose")) \cap Of("draw") = {}
    OBVIOUS
  <1>4. JudgedOf(K) = (Of("win") \cup Of("lose")) \cup Of("draw")
    BY DEF JudgedOf, Judged
  <1> HIDE DEF Of
  <1>5. /\ IsFiniteSet(Of("win") \cup Of("lose"))
        /\ Cardinality(Of("win") \cup Of("lose")) = Cardinality(Of("win")) + Cardinality(Of("lose"))
    BY <1>1, <1>3, DisjointSizes
  <1>6. Cardinality((Of("win") \cup Of("lose")) \cup Of("draw"))
            = Cardinality(Of("win") \cup Of("lose")) + Cardinality(Of("draw"))
    BY <1>1, <1>3, <1>5, DisjointSizes
  <1>7. QED
    BY <1>2, <1>4, <1>5, <1>6

\* A range is the sum of its days: for figures that count picks of some kind.
LEMMA DaysAddUp ==
    ASSUME NEW K, K \subseteq PicksOf(Days), NEW F,
           \A d \in DatesWithPicks : F[d] = Cardinality({k \in K : k[1] = d}),
           NEW sum, IsSum(sum, DatesWithPicks, F)
    PROVE  sum[DatesWithPicks] = Cardinality(K)
  <1>1. IsFiniteSet(K)
    BY PicksAreFinite, FS_Subset
  <1>2. IsFiniteSet(DatesWithPicks)
    BY PricesAreFinite DEF DatesWithPicks
  <1>3. K = {k \in K : k[1] \in DatesWithPicks}
    BY DEF PicksOf, DatesWithPicks
  <1>4. sum[DatesWithPicks] = Cardinality({k \in K : k[1] \in DatesWithPicks})
    BY <1>1, <1>2, SumOfParts
  <1>5. QED
    BY <1>3, <1>4

LEMMA StatsFollow ==
    ASSUME SettledInv
    PROVE  StatsAddUp
  <1> DEFINE K == PicksOf(0 .. MaxDay)
             all == Totals(0, MaxDay)
             days == Daily(0, MaxDay)
             D == DatesWithPicks
  <1>1. all = Summary(K) /\ IsFiniteSet(K) /\ K = PicksOf(Days)
    BY PicksAreFinite DEF Totals, Days
  <1>2. \A k \in K : SoundRow(RowOf(k)) /\ RowOf(k).outcome \in Outcomes
    <2>1. ASSUME NEW k \in K
          PROVE  SoundRow(RowOf(k)) /\ RowOf(k).outcome \in Outcomes
      <3>1. k[1] \in Days /\ k[2] \in Brands
        BY <1>1 DEF PicksOf
      <3>2. QED
        BY <3>1 DEF SettledInv, RowsAreSound, TypeOK, RowOf, Rows
    <2>2. QED
      BY <2>1
  <1>3. DOMAIN days = D /\ \A d \in D : days[d] = Summary(PicksOf({d}))
    BY DEF Daily, Day, DatesWithPicks, Days
  <1>4. \A d \in D : /\ PicksOf({d}) = {k \in K : k[1] = d}
                     /\ IsFiniteSet(PicksOf({d}))
    BY <1>1, PicksAreFinite DEF PicksOf, DatesWithPicks
  <1> HIDE DEF K, all, days, D
  <1>5. Decided(all) + all.void = all.evaluated
    <2> DEFINE V == {k \in K : RowOf(k).outcome = "void"}
               E == {k \in K : RowOf(k).evaluated}
    <2>1. all.void = Cardinality(V) /\ all.evaluated = Cardinality(E)
      BY <1>1 DEF Summary, With
    <2>2. E = JudgedOf(K) \cup V /\ JudgedOf(K) \cap V = {}
      BY <1>2 DEF SoundRow, JudgedOf, Outcomes, Judged
    <2>3. IsFiniteSet(V) /\ IsFiniteSet(JudgedOf(K))
      BY <1>1, FS_Subset DEF JudgedOf
    <2> HIDE DEF V, E
    <2>4. QED
      BY <1>1, <2>1, <2>2, <2>3, DisjointSizes, DecidedIsJudged
  <1>6. IsFiniteSet(D)
    BY PricesAreFinite DEF D, DatesWithPicks
  <1>7. MapThenSumSet(LAMBDA d : days[d].total, D) = all.total
    <2> DEFINE F == [d \in D |-> days[d].total]
               sum == CHOOSE g : g = [s \in SUBSET D |->
                   IF s = {} THEN 0
                   ELSE days[CHOOSE x \in s : TRUE].total + g[s \ {CHOOSE x \in s : TRUE}]]
    <2>1. MapThenSumSet(LAMBDA d : days[d].total, D) = sum[D]
      BY DEF MapThenSumSet, MapThenFoldSet
    <2>2. PICK g : IsSum(g, D, F)
      <3> HIDE DEF F
      <3>1. QED
        BY <1>6, SumsExist
    <2>3. \A s \in SUBSET D : s # {} => days[CHOOSE x \in s : TRUE].total = F[CHOOSE x \in s : TRUE]
      OBVIOUS
    <2>4. g = [s \in SUBSET D |->
                   IF s = {} THEN 0
                   ELSE days[CHOOSE x \in s : TRUE].total + g[s \ {CHOOSE x \in s : TRUE}]]
      BY <2>2, <2>3 DEF IsSum
    <2>5. sum = [s \in SUBSET D |->
                   IF s = {} THEN 0
                   ELSE days[CHOOSE x \in s : TRUE].total + sum[s \ {CHOOSE x \in s : TRUE}]]
      BY <2>4
    <2> HIDE DEF sum
    <2>6. IsSum(sum, D, F)
      BY <2>3, <2>5 DEF IsSum
    <2>7. \A d \in D : F[d] = Cardinality({k \in K : k[1] = d})
      <3>1. ASSUME NEW d \in D
            PROVE  F[d] = Cardinality({k \in K : k[1] = d})
        <4>1. F[d] = Summary(PicksOf({d})).total
          BY <1>3
        <4>2. Summary(PicksOf({d})).total = Cardinality(PicksOf({d}))
          BY DEF Summary
        <4>3. PicksOf({d}) = {k \in K : k[1] = d}
          BY <1>4
        <4>4. QED
          BY <4>1, <4>2, <4>3
      <3>2. QED
        BY <3>1
    <2> HIDE DEF F
    <2>8. sum[D] = Cardinality(K)
      BY <1>1, <2>6, <2>7, DaysAddUp DEF D
    <2>9. all.total = Cardinality(K)
      BY <1>1 DEF Summary
    <2>10. QED
      BY <2>1, <2>8, <2>9
  <1>8. MapThenSumSet(LAMBDA d : Decided(days[d]), D) = Decided(all)
    <2> DEFINE F == [d \in D |-> Decided(days[d])]
               sum == CHOOSE g : g = [s \in SUBSET D |->
                   IF s = {} THEN 0
                   ELSE Decided(days[CHOOSE x \in s : TRUE]) + g[s \ {CHOOSE x \in s : TRUE}]]
    <2>1. MapThenSumSet(LAMBDA d : Decided(days[d]), D) = sum[D]
      BY DEF MapThenSumSet, MapThenFoldSet
    <2>2. PICK g : IsSum(g, D, F)
      <3> HIDE DEF F
      <3>1. QED
        BY <1>6, SumsExist
    <2>3. \A s \in SUBSET D :
              s # {} => Decided(days[CHOOSE x \in s : TRUE]) = F[CHOOSE x \in s : TRUE]
      OBVIOUS
    <2>4. g = [s \in SUBSET D |->
                   IF s = {} THEN 0
                   ELSE Decided(days[CHOOSE x \in s : TRUE]) + g[s \ {CHOOSE x \in s : TRUE}]]
      BY <2>2, <2>3 DEF IsSum
    <2>5. sum = [s \in SUBSET D |->
                   IF s = {} THEN 0
                   ELSE Decided(days[CHOOSE x \in s : TRUE]) + sum[s \ {CHOOSE x \in s : TRUE}]]
      BY <2>4
    <2> HIDE DEF sum
    <2>6. IsSum(sum, D, F)
      BY <2>3, <2>5 DEF IsSum
    <2>7. \A d \in D : F[d] = Cardinality({k \in JudgedOf(K) : k[1] = d})
      <3>1. ASSUME NEW d \in D
            PROVE  F[d] = Cardinality({k \in JudgedOf(K) : k[1] = d})
        <4>1. F[d] = Decided(Summary(PicksOf({d})))
          BY <1>3
        <4>2. F[d] = Cardinality(JudgedOf(PicksOf({d})))
          BY <1>4, <4>1, DecidedIsJudged
        <4>3. JudgedOf(PicksOf({d})) = {k \in JudgedOf(K) : k[1] = d}
          BY <1>4 DEF JudgedOf
        <4>4. QED
          BY <4>2, <4>3
      <3>2. QED
        BY <3>1
    <2> HIDE DEF F
    <2>8. JudgedOf(K) \subseteq PicksOf(Days)
      BY <1>1 DEF JudgedOf
    <2>9. sum[D] = Cardinality(JudgedOf(K))
      BY <2>6, <2>7, <2>8, DaysAddUp DEF D
    <2>10. QED
      BY <1>1, <2>1, <2>9, DecidedIsJudged
  <1>9. ASSUME NEW h \in Horizons
        PROVE  Decided(all) <= all.measured[h]
    <2> DEFINE M == {k \in K : h \in RowOf(k).filled}
    <2>1. JudgedOf(K) \subseteq M
      BY <1>2 DEF JudgedOf, SoundRow
    <2>2. IsFiniteSet(M)
      BY <1>1, FS_Subset
    <2>3. all.measured[h] = Cardinality(M)
      BY <1>1 DEF Summary
    <2> HIDE DEF M
    <2>4. Cardinality(JudgedOf(K)) <= Cardinality(M)
      BY <2>1, <2>2, FS_Subset
    <2>5. QED
      BY <1>1, <2>3, <2>4, DecidedIsJudged
  <1>10. QED
    BY <1>3, <1>5, <1>7, <1>8, <1>9 DEF StatsAddUp, all, days

\* The figures the API shows of a range fit together at every moment, whatever
\* the commands are doing and however many of them (SummarizeDailyPicksForView,
\* GetStats): the parts are counted from rows whose outcome and evaluated_at
\* were set together.
THEOREM FiguresAddUp == Spec => []StatsAddUp
  <1>1. SettledInv => StatsAddUp
    BY StatsFollow
  <1>2. QED
    BY <1>1, SettledAlways, PTL
=============================================================================
