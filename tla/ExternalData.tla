---------------------------- MODULE ExternalData ----------------------------
(***************************************************************************)
(* What the program takes from outside: the client of J-Quants, the index  *)
(* charts, the statements and the calendar of announcements.  They share   *)
(* no state, and any of them may move next.                                *)
(***************************************************************************)
EXTENDS StockApi, IndexPrices, FinStatements, FinCalendar

ExternalInit == ApiInit /\ IndexInit /\ FinInit /\ CalendarInit

ExternalNext ==
    \/ ApiNext /\ UNCHANGED <<indexVars, finVars, calendarVars>>
    \/ IndexNext /\ UNCHANGED <<apiVars, finVars, calendarVars>>
    \/ FinNext /\ UNCHANGED <<apiVars, indexVars, calendarVars>>
    \/ CalendarNext /\ UNCHANGED <<apiVars, indexVars, finVars>>

ExternalSpec ==
    ExternalInit /\ [][ExternalNext]_<<apiVars, indexVars, finVars, calendarVars>>

-----------------------------------------------------------------------------
\* What was stored of the services is whole and current (one part for each of
\* getAllBrandDailyPricesByDate, CreateNikkeiAndDjiHistoricalData and the topix
\* batch, SyncFinStatements, GetValuation, FindNextBySymbol).
ExternalDataIsWhole ==
    /\ AnswersAreWhole
    /\ IndicesAreCurrent
    /\ SweepIsComplete /\ ValuationIsNewest
    /\ NextIsUpcoming /\ RangesPartition
=============================================================================
