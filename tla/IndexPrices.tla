----------------------------- MODULE IndexPrices -----------------------------
(***************************************************************************)
(* CreateNikkeiAndDjiHistoricalData: the charts of three indices are       *)
(* fetched one by one, each with the trading days and the missing prices   *)
(* of its own market, and upserted in one transaction.  The tables are     *)
(* keyed by a date and time: a finished day comes at the opening time of   *)
(* its market, the day in progress at the time of its last price.          *)
(***************************************************************************)
EXTENDS Integers, Sequences, FiniteSets, SequencesExt

CONSTANTS
    IndexCloses,   \* the closes a chart may show; 0 is a null
    LastTime,      \* the times of a day: 0 is the opening, this one the last
    MaxIndexMoves  \* bound: moves of the markets

ASSUME IndexAssumption ==
    LastTime \in Nat /\ MaxIndexMoves \in Nat /\ 0 \in IndexCloses

Indices == {"nikkei", "dji", "topix"}

VARIABLES
    charts,    \* index -> what its market has shown, [at, close] day by day
    tables,    \* index -> its rows, [day, at, close]
    fetched,   \* history: index -> the priced bars of the chart last stored
    moves      \* moves of the markets so far

indexVars == <<charts, tables, fetched, moves>>

Shown(at, close) == [at |-> at, close |-> close]

\* getStockPriceChart and its conversion: the finished days and the one in progress.
Bars(index) ==
    {[day |-> d, at |-> charts[index][d].at, close |-> charts[index][d].close] :
        d \in DOMAIN charts[index]}

\* apiResponseToModel: a day without a close is skipped.
Priced(index) == {b \in Bars(index) : b.close # 0}

\* nikkeiStockAverageDailyPricesToGenModel sets every time to nine o'clock, when
\* that market opens; the other tables keep the time of the chart.
Row(index, bar) == IF index = "nikkei" THEN [bar EXCEPT !.at = 0] ELSE bar

\* The upsert replaces the row of the same date and time.
UpsertedRows(table, rows) ==
    {r \in table : ~\E n \in rows : n.day = r.day /\ n.at = r.at} \cup rows

\* A chart that cannot be fetched, or has no result, ends the run before the
\* transaction, and a failing insert rolls all three back: nothing changes.
CreateIndexData ==
    /\ tables' = [i \in Indices |-> UpsertedRows(tables[i], {Row(i, b) : b \in Priced(i)})]
    /\ fetched' = [i \in Indices |-> Priced(i)]
    /\ UNCHANGED <<charts, moves>>

\* A market moves: its day in progress shows another price, not at an earlier
\* time, or has none for now.
Trades(index) ==
    LET n == Len(charts[index]) IN
    /\ moves < MaxIndexMoves /\ moves' = moves + 1
    /\ \E close \in IndexCloses, at \in charts[index][n].at .. LastTime :
           charts' = [charts EXCEPT ![index] = ReplaceAt(@, n, Shown(at, close))]
    /\ UNCHANGED <<tables, fetched>>

\* It closes, or had a holiday, and its next day begins.
NextSession(index) ==
    LET n == Len(charts[index]) IN
    /\ moves < MaxIndexMoves /\ moves' = moves + 1
    /\ \E close \in IndexCloses :
           charts' = [charts EXCEPT ![index] =
               Append(ReplaceAt(@, n, Shown(0, close)), Shown(0, 0))]
    /\ UNCHANGED <<tables, fetched>>

\* ListNikkeiStockAverageDailyPrices and ListTopixDailyPrices, in the order of their
\* times and read into a map by day: the last row of a day wins.
Benchmark(index, d) ==
    LET of == {r \in tables[index] : r.day = d}
    IN  {r.close : r \in {x \in of : \A q \in of : q.at <= x.at}}

IndexInit ==
    /\ charts = [i \in Indices |-> <<Shown(0, 0)>>]
    /\ tables = [i \in Indices |-> {}]
    /\ fetched = [i \in Indices |-> {}]
    /\ moves = 0

IndexNext == CreateIndexData \/ \E i \in Indices : Trades(i) \/ NextSession(i)

IndexSpec == IndexInit /\ [][IndexNext]_indexVars

-----------------------------------------------------------------------------
\* What was last fetched of each index is in its own table, no row lacks a price,
\* and what is read of a day is its close last fetched, whenever in the session
\* earlier prices of it were stored (CreateNikkeiAndDjiHistoricalData).  For the
\* Nikkei that holds of every day.  For the tables that keep the time of the chart it
\* holds while the day is in progress: when it has ended, its row at the
\* opening time does not replace the one at a later time, and that is read.
IndicesAreCurrent ==
    \A i \in Indices :
        /\ \A b \in fetched[i] :
               /\ Row(i, b) \in tables[i]
               /\ i = "nikkei" \/ b.day = Len(charts[i])
                      => Benchmark(i, b.day) = {b.close}
        /\ \A r \in tables[i] : r.close # 0
=============================================================================
