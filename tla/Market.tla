------------------------------- MODULE Market -------------------------------
(***************************************************************************)
(* The daily price table as the other components see it: which brands are  *)
(* listed, which daily bars a query returns, and which bars are hidden     *)
(* behind a soft delete.  The three writers are the daily price batch, the *)
(* brand master batch and the clock.  Prices themselves are abstracted     *)
(* away; a bar is the fact that (ticker_symbol, date) has a live row.      *)
(*                                                                         *)
(* A brand stands for its ticker symbol.  A relisted symbol gets a new     *)
(* uuid in stock_brand, but every reader modelled here looks bars up by    *)
(* symbol.                                                                 *)
(***************************************************************************)
EXTENDS Integers, FiniteSets

CONSTANTS
    Brands,     \* the ticker symbols
    MaxDay,     \* bound: the last calendar day of a run
    Lookback,   \* how many days back a price batch reaches (4 in the code)
    KeyedBySymbol \* TRUE: stock_brands_daily_price is unique by symbol and
                  \* date, the upsert's conflict target; FALSE: by brand id
                  \* and date, as in sql/_init_sql (MySQL takes the key it has)

ASSUME BrandsAssumption == IsFiniteSet(Brands) /\ Brands # {}
ASSUME MaxDayAssumption == MaxDay \in Nat
ASSUME LookbackAssumption == Lookback \in Nat
ASSUME KeyAssumption == KeyedBySymbol \in BOOLEAN

Days == 0 .. MaxDay

VARIABLES
    today,      \* the calendar day of time.Now()
    listed,     \* symbols with a stock_brand row that is not soft-deleted
    bars,       \* symbol -> dates with a live stock_brands_daily_price row
    dead        \* symbol -> dates whose row is soft-deleted

marketVars == <<today, listed, bars, dead>>

MarketTypeOK ==
    /\ today \in Days
    /\ listed \in SUBSET Brands
    /\ bars \in [Brands -> SUBSET Days]
    /\ dead \in [Brands -> SUBSET Days]

MarketInit ==
    /\ today = 0
    /\ listed = Brands
    /\ bars = [b \in Brands |-> {}]
    /\ dead = [b \in Brands |-> {}]

-----------------------------------------------------------------------------
\* ListRecentTradingDates and FindNextTradingDate know no calendar: a trading
\* date is a date for which some live bar exists.
TradingDates == UNION {bars[b] : b \in Brands}

IsLatest(d) == d \in TradingDates /\ \A x \in TradingDates : x <= d

\* The n most recent trading dates (the query's ORDER BY date DESC LIMIT n).
RecentDates(n) ==
    {d \in TradingDates : Cardinality({x \in TradingDates : x > d}) < n}

-----------------------------------------------------------------------------
\* One day's transaction of the daily batch: the API answered with bars for
\* the symbols S on date d.  The upsert's conflict clause rewrites prices but
\* never clears deleted_at: a soft-deleted bar that meets the key stays hidden.
\* Under the key by brand id it never does, since a listed brand's own bars are
\* not deleted.
IngestDay(d, S) ==
    /\ d \in (today - Lookback) .. today
    /\ S # {} /\ S \subseteq listed
    /\ bars' = [b \in Brands |-> IF b \in S /\ (KeyedBySymbol => d \notin dead[b])
                                 THEN bars[b] \cup {d}
                                 ELSE bars[b]]
    /\ UNCHANGED <<today, listed, dead>>

\* The brand master batch received a list whose symbols among Brands are L:
\* symbols missing from it are delisted and their bars soft-deleted, symbols
\* new in it are (re)listed.  (An answer with no symbol at all ends the run;
\* L may still be empty, when the answer names only symbols outside Brands.)
UpdateStockBrands(L) ==
    /\ listed' = L
    /\ bars' = [b \in Brands |-> IF b \in listed \ L THEN {} ELSE bars[b]]
    /\ dead' = [b \in Brands |-> IF b \in listed \ L THEN dead[b] \cup bars[b]
                                                     ELSE dead[b]]
    /\ UNCHANGED today

NextDay ==
    /\ today < MaxDay
    /\ today' = today + 1
    /\ UNCHANGED <<listed, bars, dead>>

Ingestion ==
    \E d \in Days, S \in SUBSET Brands : IngestDay(d, S)

Relisting ==
    \E L \in SUBSET Brands : UpdateStockBrands(L)
=============================================================================
