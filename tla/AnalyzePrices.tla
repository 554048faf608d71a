--------------------------- MODULE AnalyzePrices ---------------------------
(***************************************************************************)
(* The rows of one symbol in stock_brands_daily_price_for_analyze, which   *)
(* hold prices adjusted for splits and consolidations.  The daily batch    *)
(* writes the raw prices of the last days, the two adjust_historical_data  *)
(* commands rewrite the rows before the date of a corporate action and     *)
(* then record it as applied, and the brand master batch deletes the rows  *)
(* of a delisted symbol.  Only the daily batch and the master batch use a  *)
(* transaction.  A price is abstracted to how often each corporate action  *)
(* has been applied to it since the raw price was stored.                  *)
(***************************************************************************)
EXTENDS Integers, FiniteSets

CONSTANTS
    MaxDay,    \* bound: the last calendar day of a run
    Lookback,  \* how many days back the daily batch reaches (4 in the code)
    Keep,      \* days a row is kept, its own the first (three years in the code)
    Actions,   \* the corporate actions: pairs <<kind, effective date>>
    Adjusters, \* processes running an adjust_historical_data command
    Overlap,   \* FALSE: a batch starts only when no other one is running
    Relists,   \* TRUE: the symbol may be delisted and listed again
    MaxFaults  \* bound: crashes and database errors in a run

Days == 0 .. MaxDay
Kinds == {"split", "consolidation"}

ASSUME AnalyzeAssumption ==
    /\ MaxDay \in Nat /\ Lookback \in Nat /\ Keep \in Nat \ {0} /\ MaxFaults \in Nat
    /\ Actions \subseteq Kinds \X Days
    /\ Overlap \in BOOLEAN /\ Relists \in BOOLEAN

DateOf(a) == a[2]

Before(a) == {d \in Days : d < DateOf(a)}

VARIABLES
    today,    \* the calendar day of time.Now()
    listed,   \* whether the symbol has a live stock_brand row
    stored,   \* dates with a row
    times,    \* date -> action -> how often it has been applied to the row
    recorded, \* actions in the applied splits / consolidations histories
    daily,    \* what the daily batch holds in memory
    adjuster, \* what each adjusting process holds in memory
    faults    \* crashes and database errors so far

vars == <<today, listed, stored, times, recorded, daily, adjuster, faults>>
table == <<stored, times>>

Raw == [a \in Actions |-> 0]
IdleDaily == [pc |-> "idle", now |-> 0, day |-> 0, known |-> FALSE]
IdleAdjuster == [pc |-> "idle", held |-> {}, copy |-> [d \in Days |-> Raw],
                 for |-> {}]

TypeOK ==
    /\ today \in Days /\ listed \in BOOLEAN
    /\ stored \in SUBSET Days
    /\ times \in [Days -> [Actions -> Nat]]
    /\ recorded \in SUBSET Actions
    /\ daily \in [pc : {"idle", "read", "write"}, now : Days, day : Days,
                  known : BOOLEAN]
    /\ adjuster \in [Adjusters ->
           [pc : {"idle", "list", "write", "record"}, held : SUBSET Days,
            copy : [Days -> [Actions -> Nat]], for : SUBSET Actions]]
    /\ faults \in 0 .. MaxFaults

Init ==
    /\ today = 0 /\ listed = TRUE
    /\ stored = {} /\ times = [d \in Days |-> Raw]
    /\ recorded = {}
    /\ daily = IdleDaily
    /\ adjuster = [p \in Adjusters |-> IdleAdjuster]
    /\ faults = 0

Quiet == daily.pc = "idle" /\ \A p \in Adjusters : adjuster[p].pc = "idle"
MayStart == Overlap \/ Quiet

-----------------------------------------------------------------------------
(* create_daily_stock_price_v1 *)

\* Mutant of BeginDaily: the loop starts at the next day.
BeginTomorrow ==
    /\ daily.pc = "idle" /\ MayStart
    /\ daily' = [IdleDaily EXCEPT !.pc = "read", !.now = today, !.day = today + 1]
    /\ UNCHANGED <<today, listed, table, recorded, adjuster, faults>>

BeginDaily ==
    /\ daily.pc = "idle" /\ MayStart
    /\ daily' = [IdleDaily EXCEPT !.pc = "read", !.now = today, !.day = today]
    /\ UNCHANGED <<today, listed, table, recorded, adjuster, faults>>

\* One transaction per day begins by reading the brands.
ReadBrands ==
    /\ daily.pc = "read"
    /\ daily' = [daily EXCEPT !.pc = "write", !.known = listed]
    /\ UNCHANGED <<today, listed, table, recorded, adjuster, faults>>

\* Mutant of HasEarlier: the loop takes one day more.
HasOneMore(c) == c.day >= c.now - Lookback /\ c.day > 0

\* The loop over the last days has an earlier one to write.
HasEarlier(c) == c.day > c.now - Lookback /\ c.day > 0

\* The raw price of the day, when the API has one, replaces whatever is
\* stored; the row may also be missing from the answer, or the call may fail,
\* which is not an error.  Rows from before now three years ago are deleted: of
\* that date too, as the time of day of now is past midnight.
CommitDay ==
    /\ daily.pc = "write"
    /\ \E answered \in BOOLEAN :
        LET written == IF answered /\ daily.known THEN {daily.day} ELSE {}
            kept == {d \in stored \cup written : d > daily.day - Keep}
        IN  /\ stored' = kept
            /\ times' = [d \in Days |-> IF d \in kept \ written THEN times[d] ELSE Raw]
    /\ daily' = IF HasEarlier(daily)
                THEN [daily EXCEPT !.pc = "read", !.day = @ - 1] ELSE IdleDaily
    /\ UNCHANGED <<today, listed, recorded, adjuster, faults>>

DailyDies ==
    /\ daily.pc # "idle" /\ faults < MaxFaults
    /\ daily' = IdleDaily
    /\ faults' = faults + 1
    /\ UNCHANGED <<today, listed, table, recorded, adjuster>>

-----------------------------------------------------------------------------
(* adjust_historical_data_for_stock_split and ..._for_stock_consolidation: *)
(* four database calls without a transaction.                              *)

\* Mutant of BeginAdjust: the history is not consulted.
BeginAgain(p, a) ==
    /\ adjuster[p].pc = "idle" /\ MayStart
    /\ DateOf(a) <= today
    /\ adjuster' = [adjuster EXCEPT ![p] =
           [IdleAdjuster EXCEPT !.pc = "list", !.for = {a}]]
    /\ UNCHANGED <<today, listed, table, recorded, daily, faults>>

\* A future date or a recorded action ends the run at once.
BeginAdjust(p, a) ==
    /\ adjuster[p].pc = "idle" /\ MayStart
    /\ DateOf(a) <= today /\ a \notin recorded
    /\ adjuster' = [adjuster EXCEPT ![p] =
           [IdleAdjuster EXCEPT !.pc = "list", !.for = {a}]]
    /\ UNCHANGED <<today, listed, table, recorded, daily, faults>>

\* Without rows there is nothing to adjust, and nothing is recorded.
ListRows(p) ==
    /\ adjuster[p].pc = "list"
    /\ \E a \in adjuster[p].for :
        LET found == stored \cap Before(a) IN
        adjuster' = [adjuster EXCEPT ![p] =
            IF found = {} THEN IdleAdjuster
            ELSE [@ EXCEPT !.pc = "write", !.held = found, !.copy = times]]
    /\ UNCHANGED <<today, listed, table, recorded, daily, faults>>

\* The upsert overwrites the rows read before, and brings back those that
\* have been deleted since.
WriteRows(p) ==
    LET c == adjuster[p] IN
    /\ c.pc = "write"
    /\ \E a \in c.for :
        /\ stored' = stored \cup c.held
        /\ times' = [d \in Days |->
               IF d \in c.held THEN [c.copy[d] EXCEPT ![a] = @ + 1] ELSE times[d]]
    /\ adjuster' = [adjuster EXCEPT ![p].pc = "record"]
    /\ UNCHANGED <<today, listed, recorded, daily, faults>>

RecordAction(p) ==
    /\ adjuster[p].pc = "record"
    /\ recorded' = recorded \cup adjuster[p].for
    /\ adjuster' = [adjuster EXCEPT ![p] = IdleAdjuster]
    /\ UNCHANGED <<today, listed, table, daily, faults>>

AdjusterDies(p) ==
    /\ adjuster[p].pc # "idle" /\ faults < MaxFaults
    /\ adjuster' = [adjuster EXCEPT ![p] = IdleAdjuster]
    /\ faults' = faults + 1
    /\ UNCHANGED <<today, listed, table, recorded, daily>>

-----------------------------------------------------------------------------
(* update_stock_brands_v1, for this symbol, and the clock *)

\* The rows go with the brand; the histories of applied actions stay.
Delist ==
    /\ listed /\ Relists /\ MayStart
    /\ listed' = FALSE
    /\ stored' = {} /\ times' = [d \in Days |-> Raw]
    /\ UNCHANGED <<today, recorded, daily, adjuster, faults>>

Relist ==
    /\ ~listed /\ MayStart
    /\ listed' = TRUE
    /\ UNCHANGED <<today, table, recorded, daily, adjuster, faults>>

NextDay ==
    /\ today < MaxDay
    /\ today' = today + 1
    /\ UNCHANGED <<listed, table, recorded, daily, adjuster, faults>>

Next ==
    \/ BeginDaily \/ ReadBrands \/ CommitDay \/ DailyDies
    \/ \E p \in Adjusters, a \in Actions : BeginAdjust(p, a)
    \/ \E p \in Adjusters :
           ListRows(p) \/ WriteRows(p) \/ RecordAction(p) \/ AdjusterDies(p)
    \/ Delist \/ Relist \/ NextDay

Spec == Init /\ [][Next]_vars

-----------------------------------------------------------------------------
(* Properties *)

\* Safety, with one adjuster, however it overlaps with the daily batch, the
\* master batch and the clock.  Only a crash lets the ratio of a split divide a
\* price twice, and each crash costs at most one division: rows that are
\* deleted, rewritten or brought back meanwhile never add another.
OncePerCrash == \A d \in Days, a \in Actions : times[d][a] <= 1 + faults

\* The comment before the first query of the commands, "confirm from the split
\* history whether it has been carried out": no price is divided twice.
NeverTwice == \A d \in Days, a \in Actions : times[d][a] <= 1

\* "They adjust the past prices of a symbol that was split", the usage of the
\* commands says, and the daily batch writes the raw prices of its last days over
\* them.  When batches take turns, that look back reaches no further than its length
\* before the date: every older row carries a recorded action, once and once more
\* at most for each crash, whatever was rewritten, delisted or deleted since.  No
\* row of the date or later carries it (AdjustHistoricalDataForStockSplit and its
\* consolidation twin, against CreateDailyStockPrice).
AdjustedBeyondLookback ==
    \A a \in recorded, d \in Days :
        /\ d \in stored /\ d < DateOf(a) - Lookback => times[d][a] >= 1
        /\ times[d][a] <= IF d < DateOf(a) THEN 1 + faults ELSE 0
=============================================================================
