----------------------------- MODULE PriceStore -----------------------------
(***************************************************************************)
(* How the price tables are filled and emptied, row by row: the brand      *)
(* master batch, the daily price batch with its five transactions, and the *)
(* five year backfill with its Redis checkpoint, any of which may run      *)
(* while another does.  Market is the same store seen by symbol and one    *)
(* commit at a time; RefinesMarket says when that view is a true one.      *)
(*                                                                         *)
(* A brand row is named by its uuid.  The bars of stock_brands_daily_price *)
(* belong to the uuid, the rows of stock_brands_daily_price_for_analyze to *)
(* the symbol.  InnoDB reads from the snapshot of the transaction's first  *)
(* read and writes current rows, so a transaction is a read step and a     *)
(* commit step.  Prices are abstracted to the existence of their rows.     *)
(***************************************************************************)
EXTENDS Integers, FiniteSets

CONSTANTS
    Symbols,    \* the ticker symbols, all of them in the main markets
    Ids,        \* bound: the uuids a run may hand out
    Masters,    \* processes running the brand master command
    MaxDay,     \* bound: the last calendar day
    FirstDay,   \* the day the behaviour starts on
    Window,     \* days one daily batch asks for (5 in the code)
    Keep,       \* days an analysis row is kept, its own the first (3 years)
    Span,       \* days the backfill looks back (5 years)
    Closed,     \* weekends and holidays: no bars are answered for them
    MaxClock,   \* bound: seconds that pass between master runs
    MaxRuns,    \* bound: commands started in a behaviour
    MaxFaults,  \* bound: errors and crashes in a behaviour
    NoId, NoDay

ASSUME NamesAssumption == NoId \notin Ids /\ "none" \notin Symbols
ASSUME DaysAssumption == MaxDay \in Nat /\ FirstDay \in 0 .. MaxDay /\ Span \in Int /\ Keep \in Nat \ {0}
ASSUME ClockAssumption == MaxClock \in Nat

Days == 0 .. MaxDay

VARIABLES
    today,
    clock,      \* the second of time.Now(), as the master batch sees it
    symOf,      \* uuid -> symbol of its stock_brand row, or "none"
    stamp,      \* uuid -> updated_at
    gone,       \* uuids whose stock_brand row is soft-deleted
    bars,       \* uuid -> dates with a live daily price row
    hidden,     \* uuid -> dates whose daily price row is soft-deleted
    analyze,    \* symbol -> dates with an analysis price row
    master,     \* what each master process holds
    daily,      \* what the daily batch holds
    backfill,   \* what the backfill holds
    checkpoint, \* the date in Redis, or NoDay
    chain,      \* history: the runs resumed from one another
    raced,      \* history: uuids delisted while a price job held them
    twinned,    \* history: two master transactions have overlapped
    lost,       \* history: dates with a write of the backfill that failed
    spent       \* the commands started and the faults so far (the bounds)

store == <<today, clock, symOf, stamp, gone, bars, hidden, analyze>>
jobs == <<master, daily, backfill, checkpoint>>
history == <<chain, raced, twinned, lost>>
vars == <<store, jobs, history, spent>>

Used == {i \in Ids : symOf[i] # "none"}
Live == Used \ gone

\* Mutant of BrandMaps: deleted rows are found too.
BrandMapsDeleted ==
    {f \in [Symbols -> Ids \cup {NoId}] :
        \A s \in Symbols :
            LET rows == {i \in Used : symOf[i] = s}
            IN  IF rows = {} THEN f[s] = NoId ELSE f[s] \in rows}

\* currentBrandsMap / brandIDBySymbol: the last row of a symbol wins, and rows
\* of one symbol come in no defined order.
BrandMaps ==
    {f \in [Symbols -> Ids \cup {NoId}] :
        \A s \in Symbols :
            LET rows == {i \in Live : symOf[i] = s}
            IN  IF rows = {} THEN f[s] = NoId ELSE f[s] \in rows}

Held(f) == {f[s] : s \in Symbols} \ {NoId}

Run == spent.runs < MaxRuns /\ spent' = [spent EXCEPT !.runs = @ + 1]
Fault == spent.faults < MaxFaults /\ spent' = [spent EXCEPT !.faults = @ + 1]
MayFail(ok) == IF ok THEN UNCHANGED spent ELSE Fault

-----------------------------------------------------------------------------
(* The brand master batch.                                                 *)

IdleMaster == [at |-> "idle", now |-> 0, list |-> {}, ids |-> [s \in Symbols |-> NoId],
               old |-> {}]

\* GetStockBrands answered with the symbols L of Symbols, and others; an error
\* or an empty answer ends the run here.  now is cut to the second.
FetchList(m, L) ==
    /\ master[m].at = "idle"
    /\ master' = [master EXCEPT ![m] = [IdleMaster EXCEPT
                    !.at = "listed", !.now = clock, !.list = L]]
    /\ Run
    /\ UNCHANGED <<store, daily, backfill, checkpoint, history>>

\* The transaction's first read, FindAll, fixes what it sees: the live rows,
\* and which of them have an older updated_at than this run.
ReadMaster(m) ==
    /\ master[m].at = "listed"
    /\ \E f \in BrandMaps :
           master' = [master EXCEPT ![m] =
               [at |-> "tx", now |-> master[m].now, list |-> master[m].list, ids |-> f,
                old |-> {i \in Live : stamp[i] < master[m].now}]]
    /\ twinned' = (twinned \/ \E o \in Masters \ {m} : master[o].at = "tx")
    /\ UNCHANGED <<store, daily, backfill, checkpoint, chain, raced, lost, spent>>

\* Mutant of Assigned: every listed symbol gets a new uuid.
AssignedFresh(m, f) ==
    /\ \A s \in master[m].list : f[s] \in Ids \ Used
    /\ \A s, t \in master[m].list : f[s] = f[t] => s = t

\* matchStockBrandIDs: a listed symbol keeps the uuid it was seen with, any
\* other gets a new one (the smallest unused ones stand for random uuids).
Assigned(m, f) ==
    LET new == {s \in master[m].list : master[m].ids[s] = NoId} IN
    /\ \A s \in master[m].list \ new : f[s] = master[m].ids[s]
    /\ \A s \in new : f[s] \in Ids \ Used
    /\ \A s, t \in new : f[s] = f[t] => s = t
    /\ \A s \in new, i \in Ids \ Used :
           i < f[s] => \E t \in new : f[t] = i

\* Mutant of Delisted: rows are compared by their time alone, before the upsert.
DelistedByTime(m) == master[m].old

\* Mutant of Delisted: every older id counts, used or not.
DelistedUnseen(m) ==
    {i \in Ids : stamp[i] < master[m].now
        /\ \A s \in master[m].list : master[m].ids[s] # i}

\* UpsertStockBrands never clears deleted_at; the rows it did not touch and
\* that are older than the run are taken as delisted.
Delisted(m) ==
    {i \in master[m].old : \A s \in master[m].list : master[m].ids[s] # i}

JobsHold ==
    (IF daily.at = "tx" THEN Held(daily.ids) ELSE {})
        \cup (IF backfill.at # "idle" THEN Held(backfill.ids) ELSE {})

CommitMaster(m) ==
    /\ master[m].at = "tx"
    /\ \E f \in [master[m].list -> Ids] :
        /\ Assigned(m, f)
        /\ LET upserted == {f[s] : s \in master[m].list}
               out == Delisted(m)
           IN
           /\ symOf' = [i \in Ids |->
                   IF i \in upserted
                   THEN CHOOSE s \in master[m].list : f[s] = i
                   ELSE symOf[i]]
           /\ stamp' = [i \in Ids |-> IF i \in upserted THEN master[m].now
                                                        ELSE stamp[i]]
           /\ gone' = gone \cup out
           /\ bars' = [i \in Ids |-> IF i \in out THEN {} ELSE bars[i]]
           /\ hidden' = [i \in Ids |-> IF i \in out THEN hidden[i] \cup bars[i]
                                                    ELSE hidden[i]]
           /\ analyze' = [s \in Symbols |->
                   IF \E i \in out : symOf[i] = s THEN {} ELSE analyze[s]]
           /\ raced' = raced \cup (out \cap JobsHold)
    /\ master' = [master EXCEPT ![m] = IdleMaster]
    /\ UNCHANGED <<today, clock, daily, backfill, checkpoint, chain, twinned, lost, spent>>

\* An error or the end of the process: the transaction is rolled back.
MasterFails(m) ==
    /\ master[m].at # "idle"
    /\ master' = [master EXCEPT ![m] = IdleMaster]
    /\ Fault
    /\ UNCHANGED <<store, daily, backfill, checkpoint, history>>

-----------------------------------------------------------------------------
(* Writing bars: the upserts both price jobs make.                         *)

\* Symbols of an answer that are known to the job (a bar whose four prices
\* are all zero counts as absent from the answer).
Known(f, A) == {s \in A : f[s] # NoId}

\* CreateStockBrandDailyPrice: the row of a uuid and date is replaced, and a
\* soft-deleted row stays hidden.
WithBars(f, A, d) ==
    [i \in Ids |-> IF /\ \E s \in Known(f, A) : f[s] = i
                      /\ d \notin hidden[i]
                   THEN bars[i] \cup {d} ELSE bars[i]]

\* Mutant of WithAnalyze: a symbol without a brand gets its analysis row too.
WithAnalyzeUnknown(f, A, d) ==
    [s \in Symbols |-> IF s \in A THEN analyze[s] \cup {d} ELSE analyze[s]]

WithAnalyze(f, A, d) ==
    [s \in Symbols |-> IF s \in Known(f, A) THEN analyze[s] \cup {d} ELSE analyze[s]]

-----------------------------------------------------------------------------
(* The daily batch.                                                        *)

IdleDaily == [at |-> "idle", now |-> NoDay, i |-> 0, ids |-> [s \in Symbols |-> NoId]]

\* Mutant of StartDaily: the run asks for the bars of the day after.
StartDailyAhead ==
    /\ daily.at = "idle"
    /\ daily' = [IdleDaily EXCEPT !.at = "next", !.now = today + 1]
    /\ Run
    /\ UNCHANGED <<store, master, backfill, checkpoint, history>>

StartDaily ==
    /\ daily.at = "idle"
    /\ daily' = [IdleDaily EXCEPT !.at = "next", !.now = today]
    /\ Run
    /\ UNCHANGED <<store, master, backfill, checkpoint, history>>

ReadBrands ==
    /\ daily.at = "next"
    /\ \E f \in BrandMaps : daily' = [daily EXCEPT !.at = "tx", !.ids = f]
    /\ UNCHANGED <<store, master, backfill, checkpoint, history, spent>>

\* The API answers with bars for A (an error and a missing answer count as
\* none), the two tables are written and old analysis rows trimmed.
CommitDay(A) ==
    LET d == daily.now - daily.i IN
    /\ daily.at = "tx"
    /\ (d \in Closed \/ d < 0) => A = {}
    /\ bars' = WithBars(daily.ids, A, d)
    /\ analyze' = [s \in Symbols |->
            {x \in WithAnalyze(daily.ids, A, d)[s] : x > d - Keep}]
    /\ daily' = IF daily.i + 1 < Window
                THEN [daily EXCEPT !.at = "next", !.i = @ + 1,
                                   !.ids = [s \in Symbols |-> NoId]]
                ELSE IdleDaily
    /\ UNCHANGED <<today, clock, symOf, stamp, gone, hidden,
                   master, backfill, checkpoint, history, spent>>

\* A database error rolls the day back and ends the loop.
DailyFails ==
    /\ daily.at # "idle"
    /\ daily' = IdleDaily
    /\ Fault
    /\ UNCHANGED <<store, master, backfill, checkpoint, history>>

-----------------------------------------------------------------------------
(* The backfill.                                                           *)

IdleBackfill == [at |-> "idle", now |-> NoDay, day |-> NoDay,
                 ids |-> [s \in Symbols |-> NoId]]

StartBackfill ==
    /\ backfill.at = "idle"
    /\ \E f \in BrandMaps :
        LET fresh == checkpoint = NoDay
            start == IF fresh THEN today - Span ELSE checkpoint + 1
        IN
        /\ backfill' = [at |-> "ask", now |-> today, day |-> start, ids |-> f]
        /\ chain' = IF fresh
                    THEN [from |-> start, upTo |-> start - 1, ids |-> Held(f)]
                    ELSE [chain EXCEPT !.ids = @ \cap Held(f)]
    /\ Run
    /\ UNCHANGED <<store, master, daily, checkpoint, raced, twinned, lost>>

Answered(d) == IF d \in Closed \/ d < 0 THEN {} ELSE Symbols

\* A weekend is skipped, a holiday's answer is empty: neither moves the
\* checkpoint.
SkipDay ==
    /\ backfill.at = "ask" /\ backfill.day <= backfill.now
    /\ Answered(backfill.day) = {}
    /\ backfill' = [backfill EXCEPT !.day = @ + 1]
    /\ UNCHANGED <<store, master, daily, checkpoint, history, spent>>

\* Mutant of AskFails: the day that failed becomes the checkpoint.
AskFailsAtDay ==
    /\ backfill.at = "ask" /\ backfill.day <= backfill.now
    /\ checkpoint' = backfill.day
    /\ backfill' = IdleBackfill
    /\ Fault
    /\ UNCHANGED <<store, master, daily, history>>

\* The API failed: the day before becomes the checkpoint and the run ends.
AskFails ==
    /\ backfill.at = "ask" /\ backfill.day <= backfill.now
    /\ checkpoint' = backfill.day - 1
    /\ backfill' = IdleBackfill
    /\ Fault
    /\ UNCHANGED <<store, master, daily, history>>

\* The three writes of a day.  Each may fail, which is only logged.
WriteBars(ok) ==
    LET d == backfill.day IN
    /\ backfill.at = "ask" /\ d <= backfill.now
    /\ Answered(d) # {}
    /\ bars' = IF ok THEN WithBars(backfill.ids, Answered(d), d) ELSE bars
    /\ lost' = IF ok THEN lost ELSE [lost EXCEPT !.bars = @ \cup {d}]
    /\ backfill' = [backfill EXCEPT !.at = "analyze"]
    /\ MayFail(ok)
    /\ UNCHANGED <<today, clock, symOf, stamp, gone, hidden, analyze,
                   master, daily, checkpoint, chain, raced, twinned>>

WriteAnalyze(ok) ==
    LET d == backfill.day IN
    /\ backfill.at = "analyze"
    /\ analyze' = IF ok THEN WithAnalyze(backfill.ids, Answered(d), d) ELSE analyze
    /\ lost' = IF ok THEN lost ELSE [lost EXCEPT !.analyze = @ \cup {d}]
    /\ backfill' = [backfill EXCEPT !.at = "save"]
    /\ MayFail(ok)
    /\ UNCHANGED <<today, clock, symOf, stamp, gone, bars, hidden,
                   master, daily, checkpoint, chain, raced, twinned>>

SaveCheckpoint(ok) ==
    /\ backfill.at = "save"
    /\ checkpoint' = IF ok THEN backfill.day ELSE checkpoint
    /\ backfill' = [backfill EXCEPT !.at = "ask", !.day = @ + 1]
    /\ MayFail(ok)
    /\ UNCHANGED <<store, master, daily, history>>

\* The loop is done; the result of Del is not looked at.
EndBackfill(ok) ==
    /\ backfill.at = "ask" /\ backfill.day > backfill.now
    /\ checkpoint' = IF ok THEN NoDay ELSE checkpoint
    /\ chain' = [chain EXCEPT !.upTo = backfill.now]
    /\ backfill' = IdleBackfill
    /\ MayFail(ok)
    /\ UNCHANGED <<store, master, daily, raced, twinned, lost>>

\* The process ends, or the Set after an API error fails.
BackfillDies ==
    /\ backfill.at # "idle"
    /\ backfill' = IdleBackfill
    /\ lost' = IF backfill.at = "analyze"
               THEN [lost EXCEPT !.analyze = @ \cup {backfill.day}] ELSE lost
    /\ Fault
    /\ UNCHANGED <<store, master, daily, checkpoint, chain, raced, twinned>>

\* Redis forgets the key after its seven days.
ExpireCheckpoint ==
    /\ checkpoint # NoDay
    /\ checkpoint' = NoDay
    /\ Fault
    /\ UNCHANGED <<store, master, daily, backfill, history>>

-----------------------------------------------------------------------------
NextDay ==
    /\ today < MaxDay
    /\ today' = today + 1
    /\ UNCHANGED <<clock, symOf, stamp, gone, bars, hidden, analyze, jobs, history, spent>>

Tick ==
    /\ clock < MaxClock
    /\ clock' = clock + 1
    /\ UNCHANGED <<today, symOf, stamp, gone, bars, hidden, analyze, jobs, history, spent>>

Init ==
    /\ today = FirstDay
    /\ clock = 0
    /\ symOf = [i \in Ids |-> "none"]
    /\ stamp = [i \in Ids |-> 0]
    /\ gone = {}
    /\ bars = [i \in Ids |-> {}]
    /\ hidden = [i \in Ids |-> {}]
    /\ analyze = [s \in Symbols |-> {}]
    /\ master = [m \in Masters |-> IdleMaster]
    /\ daily = IdleDaily
    /\ backfill = IdleBackfill
    /\ checkpoint = NoDay
    /\ chain = [from |-> 0, upTo |-> 0 - 1, ids |-> {}]
    /\ raced = {}
    /\ twinned = FALSE
    /\ lost = [bars |-> {}, analyze |-> {}]
    /\ spent = [runs |-> 0, faults |-> 0]

MasterStep(m) ==
    \/ \E L \in SUBSET Symbols : FetchList(m, L)
    \/ ReadMaster(m)
    \/ CommitMaster(m)
    \/ MasterFails(m)

DailyStep ==
    \/ StartDaily
    \/ ReadBrands
    \/ \E A \in SUBSET Symbols : CommitDay(A)
    \/ DailyFails

BackfillStep ==
    \/ StartBackfill
    \/ SkipDay
    \/ AskFails
    \/ \E ok \in BOOLEAN : WriteBars(ok)
    \/ \E ok \in BOOLEAN : WriteAnalyze(ok)
    \/ \E ok \in BOOLEAN : SaveCheckpoint(ok)
    \/ \E ok \in BOOLEAN : EndBackfill(ok)
    \/ BackfillDies
    \/ ExpireCheckpoint

Next ==
    \/ \E m \in Masters : MasterStep(m)
    \/ DailyStep
    \/ BackfillStep
    \/ NextDay
    \/ Tick

Spec == Init /\ [][Next]_vars
-----------------------------------------------------------------------------
TypeOK ==
    /\ today \in Days /\ clock \in 0 .. MaxClock
    /\ symOf \in [Ids -> Symbols \cup {"none"}]
    /\ stamp \in [Ids -> 0 .. MaxClock]
    /\ gone \subseteq Used
    /\ bars \in [Ids -> SUBSET Days] /\ hidden \in [Ids -> SUBSET Days]
    /\ analyze \in [Symbols -> SUBSET Days]
    /\ \A m \in Masters :
           /\ master[m].at \in {"idle", "listed", "tx"}
           /\ master[m].now <= clock
           /\ Held(master[m].ids) \cup master[m].old \subseteq Used
    /\ daily.at \in {"idle", "next", "tx"} /\ Held(daily.ids) \subseteq Used
    /\ backfill.at \in {"idle", "ask", "analyze", "save"}
    /\ Held(backfill.ids) \subseteq Used

\* A live bar of a delisted brand is left behind only by a price job that had
\* read the brands before the delisting committed: the master batch itself
\* never leaves one (update_stock_brands.go, handleDelistedStockBrands).
OrphansOnlyFromRaces ==
    \A i \in gone : bars[i] # {} => i \in raced

\* stock_brand has no unique key on ticker_symbol.  Two live rows of one symbol
\* come only from two master transactions that overlapped.
OneRowPerSymbol ==
    \A i, j \in Live : i # j /\ symOf[i] = symOf[j] => twinned

\* Every variable has its type, and a symbol has two live brand rows only where
\* two master transactions have overlapped (UpsertStockBrands inserts under the
\* ids its own transaction has read).
StoreIsWellFormed == TypeOK /\ OneRowPerSymbol

\* The days the checkpoint vouches for: those a running backfill has passed,
\* those at or before the stored date, those of a run that ended.
Claimed ==
    IF backfill.at # "idle" THEN backfill.day - 1
    ELSE IF checkpoint # NoDay THEN checkpoint ELSE chain.upTo

\* Runs that resume from one another leave no gap: every open day since the
\* first run's start, up to what the checkpoint vouches for, has a bar of each
\* brand all of them knew, unless its write failed or the brand was delisted
\* (create_historical_daily_stock_prices.go, the checkpoint after an error is
\* the day before).
BackfillIsComplete ==
    \A d \in chain.from .. Claimed, i \in chain.ids \ gone :
        Answered(d) # {} /\ d \notin lost.bars => d \in bars[i]

\* The two tables tell the same story.  Without races, failed writes and
\* overlapping master runs, a symbol's analysis rows are bars of its live
\* rows, and no bar young enough to be kept lacks its analysis row.
AnalyzeMirrorsPrices ==
    ~twinned /\ raced = {} =>
        \A s \in Symbols :
            LET days == UNION {bars[i] : i \in {j \in Live : symOf[j] = s}}
                inFlight == IF backfill.at = "analyze" THEN {backfill.day} ELSE {}
            IN  /\ analyze[s] \ lost.bars \subseteq days
                /\ {d \in days : d > today - Keep}
                       \ (lost.analyze \cup inFlight) \subseteq analyze[s]

\* Without overlapping transactions the master batch takes no analysis row and
\* no brand row from a symbol its list names, whatever the clock did between
\* the runs (update_stock_brands.go, 上場廃止).
MasterSparesListed ==
    [][\A m \in Masters :
        master[m].at = "tx" /\ master'[m].at = "idle" /\ ~twinned =>
            \A s \in master[m].list :
                /\ analyze[s] \subseteq analyze'[s]
                /\ \A i \in Live : symOf[i] = s => i \notin gone']_vars

\* Seen by symbol, the store takes steps of Market alone as long as no master
\* runs overlap and no price job outlives the delisting of a brand it holds.
ListedSymbols == {symOf[i] : i \in Live}
SymbolBars == [s \in Symbols |-> UNION {bars[i] : i \in {j \in Used : symOf[j] = s}}]
SymbolHidden == [s \in Symbols |-> UNION {hidden[i] : i \in {j \in Used : symOf[j] = s}}]

M == INSTANCE Market WITH
        Brands <- Symbols, Lookback <- MaxDay, KeyedBySymbol <- FALSE,
        listed <- ListedSymbols, bars <- SymbolBars, dead <- SymbolHidden

RefinesMarket ==
    [][~twinned' /\ raced' = {} =>
          M!Ingestion \/ M!Relisting \/ M!NextDay]_(M!marketVars)

=============================================================================
