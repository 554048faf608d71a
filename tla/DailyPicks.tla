----------------------------- MODULE DailyPicks -----------------------------
(***************************************************************************)
(* The daily stock picks: the create_daily_stock_picks_v1 command screens  *)
(* the latest trading day, stores the ranked picks and posts them to       *)
(* Slack; the evaluate_daily_stock_picks_v1 command settles the stored     *)
(* picks from the bars that arrive afterwards.  Both are separate          *)
(* operating system processes started by cron or by an operator, and they  *)
(* meet only in the database: no lock spans the steps between two queries. *)
(***************************************************************************)
EXTENDS Market

CONSTANTS
    Creators,     \* processes running create_daily_stock_picks_v1
    Evaluators,   \* processes running evaluate_daily_stock_picks_v1
    ForceFlags,   \* the values of --force in use, a subset of BOOLEAN
    WarmUp,       \* dailyStockPickWindowDays and filter.WindowDays (120)
    TopN,         \* how many picks are kept
    Horizons,     \* dailyStockPickHorizons, {1, 3, 5}
    LastHorizon,  \* the horizon that decides the outcome, 5
    Deadline,     \* dailyStockPickEvaluationDeadlineDays, 30
    SearchDays,   \* how far back pending rows are looked for, 2 * Deadline
    ZeroBars,     \* the <<symbol, date>> of bars whose adjusted close is zero
    Moves,        \* signs the return at LastHorizon may have
    DailyCron,    \* TRUE: an evaluation run succeeds on every calendar day
    Relists,      \* TRUE: the brand master batch runs too
    MaxActions,   \* bound: recorded splits and consolidations in a run
    MaxFaults     \* bound: crashes and failed Slack posts in a run

ASSUME FlagsAssumption ==
    /\ ForceFlags \subseteq BOOLEAN
    /\ DailyCron \in BOOLEAN
    /\ Relists \in BOOLEAN
ASSUME SizesAssumption ==
    /\ WarmUp \in Nat \ {0}
    /\ TopN \in Nat \ {0}
    /\ Deadline \in Nat
    /\ SearchDays \in Nat
    /\ MaxActions \in Nat
    /\ MaxFaults \in Nat
ASSUME HorizonsAssumption ==
    /\ Horizons \subseteq Nat \ {0}
    /\ LastHorizon \in Horizons
    /\ \A h \in Horizons : h <= LastHorizon
ASSUME MovesAssumption == Moves \subseteq {-1, 0, 1}
ASSUME ZeroBarsAssumption == ZeroBars \subseteq Brands \X Days

NotYet == 2                                \* a NULL return_5d
Judged == {"win", "lose", "draw"}
Outcomes == Judged \cup {"void", "null"}   \* "null": outcome IS NULL

\* One row of daily_stock_pick; rank 0 means that the row does not exist.
\* filled is the set of non-NULL returns; based is history: whether the
\* returns were last computed from the bar of the pick date itself.
Rows == [rank : Nat, filled : SUBSET Horizons, gain : {-1, 0, 1, NotYet},
         outcome : Outcomes, evaluated : BOOLEAN, notified : BOOLEAN,
         based : BOOLEAN]

FreshRow(rank) ==
    [rank |-> rank, filled |-> {}, gain |-> NotYet, outcome |-> "null",
     evaluated |-> FALSE, notified |-> FALSE, based |-> FALSE]

NoRow == FreshRow(0)
NoRanks == [b \in Brands |-> 0]

Steps == {"idle", "check", "screen", "save", "send", "mark"}

VARIABLES
    picks,     \* the table: pick_date -> symbol -> row
    acted,     \* applied split / consolidation histories: {<<symbol, date>>}
    creator,   \* what each create process holds in memory
    evaluator, \* what each evaluate process holds in memory
    sent,      \* history: pick_date -> symbols posted to Slack so far
    lastEval,  \* history: day of the last evaluation run that succeeded
    faults     \* crashes and failed posts so far

pickVars == <<picks, acted, creator, evaluator, sent, lastEval, faults>>
vars == <<today, listed, bars, dead, picks, acted, creator, evaluator, sent,
          lastEval, faults>>

IdleCreator ==
    [pc |-> "idle", date |-> 0, from |-> 0, ranks |-> NoRanks, unsent |-> {}]
IdleEvaluator ==
    [pc |-> "idle", now |-> 0, pending |-> [d \in Days |-> {}],
     copy |-> [d \in Days |-> [b \in Brands |-> NoRow]]]

TypeOK ==
    /\ MarketTypeOK
    /\ picks \in [Days -> [Brands -> Rows]]
    /\ acted \in SUBSET (Brands \X Days)
    /\ creator \in [Creators ->
           [pc : Steps, date : Days, from : Days, ranks : [Brands -> Nat],
            unsent : SUBSET Brands]]
    /\ evaluator \in [Evaluators ->
           [pc : {"idle", "evaluate"}, now : Days,
            pending : [Days -> SUBSET Brands],
            copy : [Days -> [Brands -> Rows]]]]
    /\ sent \in [Days -> SUBSET Brands]
    /\ lastEval \in Days \cup {-1}
    /\ faults \in 0 .. MaxFaults

Init ==
    /\ MarketInit
    /\ picks = [d \in Days |-> [b \in Brands |-> NoRow]]
    /\ acted = {}
    /\ creator = [p \in Creators |-> IdleCreator]
    /\ evaluator = [e \in Evaluators |-> IdleEvaluator]
    /\ sent = [d \in Days |-> {}]
    /\ lastEval = -1
    /\ faults = 0

-----------------------------------------------------------------------------
\* Views of the table.
Picked(d) == {b \in Brands : picks[d][b].rank > 0}
AllNotified(d) == \A b \in Picked(d) : picks[d][b].notified
Pending(d, b) == b \in Picked(d) /\ ~picks[d][b].evaluated

-----------------------------------------------------------------------------
(* create_daily_stock_picks_v1 *)

\* ListRecentTradingDates.  With fewer than WarmUp dates the run ends at once.
BeginCreate(p, force) ==
    /\ creator[p].pc = "idle"
    /\ Cardinality(TradingDates) >= WarmUp
    /\ \E date \in TradingDates, from \in RecentDates(WarmUp) :
        /\ IsLatest(date)
        /\ \A x \in RecentDates(WarmUp) : from <= x
        /\ creator' = [creator EXCEPT ![p] =
               [IdleCreator EXCEPT !.pc = IF force THEN "screen" ELSE "check",
                                   !.date = date,
                                   !.from = from]]
    /\ UNCHANGED <<marketVars, picks, acted, evaluator, sent, lastEval, faults>>

\* Mutants of CheckExisting: a posted list is posted again; a list that could
\* not be posted is screened again; an existing list is never posted again.
AlwaysResend(p) ==
    LET d == creator[p].date IN
    /\ creator[p].pc = "check"
    /\ creator' = [creator EXCEPT ![p] =
           IF Picked(d) = {} THEN [@ EXCEPT !.pc = "screen"]
           ELSE [@ EXCEPT !.pc = "send",
                          !.ranks = [b \in Brands |-> picks[d][b].rank],
                          !.unsent = Picked(d)]]
    /\ UNCHANGED <<marketVars, picks, acted, evaluator, sent, lastEval, faults>>

RebuildUnnotified(p) ==
    LET d == creator[p].date IN
    /\ creator[p].pc = "check"
    /\ creator' = [creator EXCEPT ![p] =
           IF Picked(d) = {} \/ ~AllNotified(d) THEN [@ EXCEPT !.pc = "screen"]
           ELSE IdleCreator]
    /\ UNCHANGED <<marketVars, picks, acted, evaluator, sent, lastEval, faults>>

NeverResend(p) ==
    LET d == creator[p].date IN
    /\ creator[p].pc = "check"
    /\ creator' = [creator EXCEPT ![p] =
           IF Picked(d) = {} THEN [@ EXCEPT !.pc = "screen"] ELSE IdleCreator]
    /\ UNCHANGED <<marketVars, picks, acted, evaluator, sent, lastEval, faults>>

\* ListByPickDate and notifyIfPending: an existing list is never rebuilt, it
\* is posted again when some row of it is not marked as notified.
CheckExisting(p) ==
    LET d == creator[p].date IN
    /\ creator[p].pc = "check"
    /\ creator' = [creator EXCEPT ![p] =
           IF Picked(d) = {} THEN [@ EXCEPT !.pc = "screen"]
           ELSE IF AllNotified(d) THEN IdleCreator
           ELSE [@ EXCEPT !.pc = "send",
                          !.ranks = [b \in Brands |-> picks[d][b].rank],
                          !.unsent = Picked(d)]]
    /\ UNCHANGED <<marketVars, picks, acted, evaluator, sent, lastEval, faults>>

\* Only a listed brand with a full window of bars can pass the filters;
\* which of those pass, and in which order they score, is up to the prices.
Candidates(from, date) ==
    {b \in listed : Cardinality(bars[b] \cap (from .. date)) >= WarmUp}

\* The ranked picks: distinct ranks 1..n for n <= TopN candidates.
Rankings(C) ==
    {r \in [Brands -> 0 .. Cardinality(C)] :
        LET S == {b \in Brands : r[b] > 0} IN
        /\ S \subseteq C
        /\ Cardinality(S) <= TopN
        /\ {r[b] : b \in S} = 1 .. Cardinality(S)}

\* Mutant of Screen: an empty result is saved like any other.
ScreenKeepsEmpty(p) ==
    /\ creator[p].pc = "screen"
    /\ \E r \in Rankings(Candidates(creator[p].from, creator[p].date)) :
           creator' = [creator EXCEPT ![p] = [@ EXCEPT !.pc = "save", !.ranks = r]]
    /\ UNCHANGED <<marketVars, picks, acted, evaluator, sent, lastEval, faults>>

\* screen: an empty result ends the run and keeps what is stored.
Screen(p) ==
    /\ creator[p].pc = "screen"
    /\ \E r \in Rankings(Candidates(creator[p].from, creator[p].date)) :
           creator' = [creator EXCEPT ![p] =
               IF r = NoRanks THEN IdleCreator
               ELSE [@ EXCEPT !.pc = "save", !.ranks = r]]
    /\ UNCHANGED <<marketVars, picks, acted, evaluator, sent, lastEval, faults>>

\* The transaction: DeleteByPickDate, then BulkCreate.
SavePicks(p) ==
    LET c == creator[p] IN
    /\ c.pc = "save"
    /\ picks' = [picks EXCEPT ![c.date] =
                    [b \in Brands |-> FreshRow(c.ranks[b])]]
    /\ creator' = [creator EXCEPT
                     ![p].pc = "send",
                     ![p].unsent = {b \in Brands : c.ranks[b] > 0}]
    /\ UNCHANGED <<marketVars, acted, evaluator, sent, lastEval, faults>>

\* One Slack message holds the next picks in rank order, as many as fit.
Bodies(c) ==
    {B \in SUBSET c.unsent :
        /\ B # {}
        /\ \A x \in B, y \in c.unsent \ B : c.ranks[x] <= c.ranks[y]}

SendBody(p) ==
    LET c == creator[p] IN
    /\ c.pc = "send"
    /\ \E B \in Bodies(c) :
        /\ sent' = [sent EXCEPT ![c.date] = @ \cup B]
        /\ creator' = [creator EXCEPT
                         ![p].unsent = @ \ B,
                         ![p].pc = IF c.unsent = B THEN "mark" ELSE "send"]
    /\ UNCHANGED <<marketVars, picks, acted, evaluator, lastEval, faults>>

\* Mutant of SlackFails: the error is logged and the run goes on to the mark.
IgnoreSlackError(p) ==
    LET c == creator[p] IN
    /\ c.pc = "send" /\ faults < MaxFaults
    /\ creator' = [creator EXCEPT ![p].pc = "mark", ![p].unsent = {}]
    /\ faults' = faults + 1
    /\ UNCHANGED <<marketVars, picks, acted, evaluator, sent, lastEval>>

\* SendMessageByStrings returns an error: the run ends without MarkNotified,
\* whether or not the message reached the channel.
SlackFails(p) ==
    LET c == creator[p] IN
    /\ c.pc = "send" /\ faults < MaxFaults
    /\ \E B \in Bodies(c) \cup {{}} : sent' = [sent EXCEPT ![c.date] = @ \cup B]
    /\ creator' = [creator EXCEPT ![p] = IdleCreator]
    /\ faults' = faults + 1
    /\ UNCHANGED <<marketVars, picks, acted, evaluator, lastEval>>

\* MarkNotified stamps every row of the date, whichever run wrote it.
MarkNotified(p) ==
    LET d == creator[p].date IN
    /\ creator[p].pc = "mark"
    /\ picks' = [picks EXCEPT ![d] =
                    [b \in Brands |-> IF b \in Picked(d)
                                      THEN [picks[d][b] EXCEPT !.notified = TRUE]
                                      ELSE picks[d][b]]]
    /\ creator' = [creator EXCEPT ![p] = IdleCreator]
    /\ UNCHANGED <<marketVars, acted, evaluator, sent, lastEval, faults>>

\* A crash, or a database error at any step: nothing of the run's memory
\* survives, and an open transaction is rolled back.
CreatorDies(p) ==
    /\ creator[p].pc # "idle" /\ faults < MaxFaults
    /\ creator' = [creator EXCEPT ![p] = IdleCreator]
    /\ faults' = faults + 1
    /\ UNCHANGED <<marketVars, picks, acted, evaluator, sent, lastEval>>

-----------------------------------------------------------------------------
(* evaluate_daily_stock_picks_v1 *)

\* Mutant of PendingSince: the window is the deadline itself.
PendingSinceDeadline(now, d) ==
    IF d >= now - Deadline THEN {b \in Brands : Pending(d, b)} ELSE {}

\* ListPendingEvaluation(now - SearchDays).
PendingSince(now, d) ==
    IF d >= now - SearchDays THEN {b \in Brands : Pending(d, b)} ELSE {}

\* The pending rows are read before the transaction begins; a run that finds
\* none has nothing left to do.
BeginEvaluate(e) ==
    /\ evaluator[e].pc = "idle"
    /\ IF \A d \in Days : PendingSince(today, d) = {}
       THEN /\ lastEval' = today
            /\ UNCHANGED evaluator
       ELSE /\ evaluator' = [evaluator EXCEPT ![e] =
                  [pc |-> "evaluate", now |-> today,
                   pending |-> [d \in Days |-> PendingSince(today, d)],
                   copy |-> [d \in Days |-> [b \in Brands |->
                                IF b \in PendingSince(today, d)
                                THEN picks[d][b] ELSE NoRow]]]]
            /\ UNCHANGED lastEval
    /\ UNCHANGED <<marketVars, picks, acted, creator, sent, faults>>

\* JudgeDailyPickOutcome.
Judge(gain) == IF gain > 0 THEN "win" ELSE IF gain < 0 THEN "lose" ELSE "draw"

\* Mutant of PricesFrom: the range starts after the pick date.
PricesAfter(b, d, now) == bars[b] \cap ((d + 1) .. now)

\* The bars of the range query, and the position of one among them.
PricesFrom(b, d, now) == bars[b] \cap (d .. now)
Position(P, x) == Cardinality({y \in P : y < x})

\* Mutant of Reached: the base bar counts as a horizon of its own.
ReachedFromZero(P) == {h \in Horizons \cup {0} : h < Cardinality(P)}

\* ForwardReturns: horizon h is known once a bar follows h bars after the base.
Reached(P) == {h \in Horizons : h < Cardinality(P)}

HasCorporateAction(b, P) ==
    \E x \in P : Position(P, x) \in 1 .. LastHorizon /\ <<b, x>> \in acted

\* ForwardReturns has no base when no bar has come yet, and when the adjusted
\* close of the first one is zero.
BaseFound(b, P) == \E x \in P : Position(P, x) = 0 /\ <<b, x>> \notin ZeroBars

\* now has a time of day and the pick date has none, so that now is after the
\* date plus Deadline days on that very day.
Expired(d, now) == now >= d + Deadline

\* Mutant of Settle: evaluated_at is forgotten.
SettleUnstamped(r, outcome) == [r EXCEPT !.outcome = outcome]

Settle(r, outcome) == [r EXCEPT !.outcome = outcome, !.evaluated = TRUE]

\* evaluateOnePick for the copy r of a row, when it has something to write.
Evaluate(r, b, d, now, gain) ==
    LET P == PricesFrom(b, d, now)
        partial == [r EXCEPT !.filled = Reached(P), !.based = (d \in P)]
        full == [partial EXCEPT !.gain = gain]
    IN  IF ~BaseFound(b, P) THEN Settle(r, "void")
        ELSE IF LastHorizon \notin Reached(P)
             THEN IF Expired(d, now) THEN Settle(partial, "void") ELSE partial
        ELSE IF HasCorporateAction(b, P) THEN Settle(full, "void")
        ELSE Settle(full, Judge(gain))

\* A pick without a base bar is skipped until it expires.
HasUpdate(b, d, now) == BaseFound(b, PricesFrom(b, d, now)) \/ Expired(d, now)

\* Mutant of Overwrite: every column is written, the NULLs of the copy too.
OverwriteAll(row, u) == IF row.rank = 0 THEN row ELSE u

\* UpdateEvaluations: gorm's Updates(struct) writes every field of the copy
\* that is not NULL, and nothing where the row has gone.
Overwrite(row, u) ==
    IF row.rank = 0 THEN row
    ELSE [rank |-> u.rank,
          filled |-> row.filled \cup u.filled,
          gain |-> IF u.gain = NotYet THEN row.gain ELSE u.gain,
          outcome |-> IF u.outcome = "null" THEN row.outcome ELSE u.outcome,
          evaluated |-> row.evaluated \/ u.evaluated,
          notified |-> row.notified \/ u.notified,
          based |-> u.based]

\* The transaction over all pending picks, on the bars of its own snapshot.
CommitEvaluate(e) ==
    LET v == evaluator[e] IN
    /\ v.pc = "evaluate"
    /\ \E gain \in [Brands -> Moves] :
        picks' = [d \in Days |-> [b \in Brands |->
            IF b \in v.pending[d] /\ HasUpdate(b, d, v.now)
            THEN Overwrite(picks[d][b],
                           Evaluate(v.copy[d][b], b, d, v.now, gain[b]))
            ELSE picks[d][b]]]
    /\ evaluator' = [evaluator EXCEPT ![e] = IdleEvaluator]
    /\ lastEval' = v.now
    /\ UNCHANGED <<marketVars, acted, creator, sent, faults>>

EvaluatorDies(e) ==
    /\ evaluator[e].pc # "idle" /\ faults < MaxFaults
    /\ evaluator' = [evaluator EXCEPT ![e] = IdleEvaluator]
    /\ faults' = faults + 1
    /\ UNCHANGED <<marketVars, picks, acted, creator, sent, lastEval>>

-----------------------------------------------------------------------------
(* The other batches, and the clock *)

\* The split / consolidation command records the symbol and the date.
RecordCorporateAction(b, d) ==
    /\ d <= today /\ Cardinality(acted) < MaxActions
    /\ acted' = acted \cup {<<b, d>>}
    /\ UNCHANGED <<marketVars, picks, creator, evaluator, sent, lastEval, faults>>

\* The brand master batch, and the price batch.
MarketChanges ==
    /\ Ingestion \/ (Relists /\ Relisting)
    /\ UNCHANGED pickVars

DayPasses ==
    /\ DailyCron => lastEval = today
    /\ NextDay
    /\ UNCHANGED pickVars

Create(p) ==
    \/ \E force \in ForceFlags : BeginCreate(p, force)
    \/ CheckExisting(p) \/ Screen(p) \/ SavePicks(p)
    \/ SendBody(p) \/ MarkNotified(p)

Next ==
    \/ \E p \in Creators : Create(p) \/ SlackFails(p) \/ CreatorDies(p)
    \/ \E e \in Evaluators :
           BeginEvaluate(e) \/ CommitEvaluate(e) \/ EvaluatorDies(e)
    \/ \E b \in Brands, d \in Days : RecordCorporateAction(b, d)
    \/ MarketChanges
    \/ DayPasses

Spec == Init /\ [][Next]_vars

\* cron starts both commands again and again, and a started command keeps
\* running; nothing forces prices to arrive, brands to change or faults to
\* happen.  The faults are finitely many: Slack and the database recover.
Fairness ==
    /\ \A p \in Creators : WF_vars(Create(p))
    /\ \A e \in Evaluators : WF_vars(BeginEvaluate(e) \/ CommitEvaluate(e))
    /\ WF_vars(DayPasses)

FairSpec == Spec /\ Fairness

-----------------------------------------------------------------------------
(* Properties *)

\* Safety, for any number of processes.  evaluated_at and outcome are set
\* together, and a win, lose or draw always rests on all horizons and on the
\* stored return: the statistics divide by the judged rows, and a copy of a
\* row read before a concurrent run's transaction is written back field by
\* field (UpdateEvaluations).
SettledRowsAreSound ==
    \A d \in Days : \A b \in Picked(d) :
        LET r == picks[d][b] IN
        /\ r.evaluated <=> r.outcome # "null"
        /\ r.outcome \in Judged =>
               /\ r.filled = Horizons
               /\ r.gain # NotYet
               /\ r.outcome = Judge(r.gain)

\* Safety, with one create process at a time.  A row marked as notified names
\* a brand that some Slack message for that date named: MarkNotified stamps
\* the rows by date, not the rows that were posted, and --force replaces rows
\* while evaluations hold copies of the old ones.
NotifiedWereSent ==
    \A d \in Days : \A b \in Picked(d) :
        picks[d][b].notified => b \in sent[d]

\* Safety, with one create process and no --force.  Once every row of a date
\* is marked, no run posts that date again (the idempotence the interactor's
\* comment promises), although a run crashing between Slack and MarkNotified
\* does post twice.
NoResendOnceMarked ==
    \A p \in Creators :
        creator[p].pc = "send" => ~AllNotified(creator[p].date)

\* Safety, with one create process and no --force.  A published list keeps
\* its members and ranks for good, through re-notification, crashes and
\* evaluations.
PublishedListIsStable ==
    [][\A d \in Days : Picked(d) # {} =>
          \A b \in Brands : picks'[d][b].rank = picks[d][b].rank]_vars

\* The comment on daily_stock_pick.pick_rank: the rank in score order, 1..N.
RanksAreOneToN ==
    \A d \in Days : {picks[d][b].rank : b \in Picked(d)}
                     = 1 .. Cardinality(Picked(d))

\* The assumption evaluatePickDate states before it calls ForwardReturns: the
\* first bar of the range is the bar of the pick date.
BaseIsPickDate ==
    \A d \in Days : \A b \in Picked(d) :
        picks[d][b].outcome \in Judged => picks[d][b].based

\* The picks implement the ledger their readers rely on, as long as at most
\* one evaluation runs at a time.
LedgerState(d, b) ==
    IF b \notin Picked(d) THEN "absent"
    ELSE IF picks[d][b].outcome = "null" THEN "pending"
    ELSE picks[d][b].outcome

LedgerView == [d \in Days |-> [b \in Brands |-> LedgerState(d, b)]]

Ledger == INSTANCE PickLedger WITH ledger <- LedgerView
ImplementsLedger == Ledger!LedgerSpec

\* Liveness, when an evaluation run succeeds every day.  A pick that exists on
\* the day of its deadline is settled, even when its bars are gone: the search
\* window of twice the deadline still reaches one that is stored on that day
\* after the day's evaluation.
PicksAreSettled ==
    \A d \in Days, b \in Brands :
        (Pending(d, b) /\ today <= d + Deadline /\ d + Deadline <= MaxDay)
            ~> ~Pending(d, b)

\* Liveness, with one create process and Slack recovering.  The list of the
\* latest trading date is eventually marked as notified, unless a newer date
\* arrives first.
LatestIsNotified ==
    \A d \in Days :
        (Picked(d) # {} /\ ~AllNotified(d) /\ IsLatest(d))
            ~> (AllNotified(d) \/ ~IsLatest(d))

\* The comment on daily_stock_pick.notified_at: a NULL row is notified again by
\* the next batch.
UnnotifiedIsRetried ==
    \A d \in Days :
        (Picked(d) # {} /\ ~AllNotified(d)) ~> AllNotified(d)
=============================================================================
