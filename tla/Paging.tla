------------------------------- MODULE Paging -------------------------------
(***************************************************************************)
(* The listings of the API and a client that reads one of them page after  *)
(* page while other transactions insert and delete rows.  Brands, high-    *)
(* volume brands and multiple-signal stocks are paged by a cursor, a       *)
(* symbol to start from; the analysis history, its dates and the results   *)
(* announcements by page number.                                           *)
(***************************************************************************)
EXTENDS Integers, Sequences, FiniteSets, SequencesExt

CONSTANTS TableRows,       \* rows that may be stored: [id, symbol, day]
          MaxTableRows,    \* bound: rows when the listing starts
          PageLimit,       \* the limit the client asks for
          MaxTableChanges, \* bound: inserts and deletes during a listing
          MaxPagesRead     \* bound: pages a client reads

\* What the proofs ask of the rows: numbers, and an id of its own for each.
RowsHaveIds ==
    /\ IsFiniteSet(TableRows)
    /\ \A r \in TableRows : r.id \in Nat /\ r.symbol \in Nat /\ r.day \in Nat
    /\ \A r, s \in TableRows : r.id = s.id => r = s

CursorListings == {"brands", "highVolume", "signals"}
Listings == CursorListings \cup {"history", "dates", "announcements"}

VARIABLES
    rows,      \* the table
    listing,   \* the listing the client reads
    step,      \* its next query: "count", "find", "byDates", or "done"
    page, cursor, total, dates,
    answered,  \* the pages the client has got
    stable,    \* history: the rows that were there all the while
    ever,      \* history: the rows that were there at some time
    changes

pagingVars == <<rows, listing, step, page, cursor, total, dates, answered,
                stable, ever, changes>>

LeastOf(a, b) == IF a < b THEN a ELSE b

\* FindMultipleSignals without a date: the symbols with two signals or more
\* (ids stand for methods) on the newest day of the whole table, grouped.
SignalGroups(table) ==
    {[symbol |-> r.symbol, day |-> r.day] :
        r \in {x \in table : /\ \A y \in table : y.day <= x.day
                             /\ \E y \in table : /\ y.id # x.id
                                                 /\ y.symbol = x.symbol
                                                 /\ y.day = x.day}}

\* The days that have a history row.
DistinctDates(table) == {r.day : r \in table}

\* What the listing consists of.
Items(table) ==
    CASE listing = "signals" -> SignalGroups(table)
      [] listing = "dates"   -> DistinctDates(table)
      [] OTHER               -> table

\* ORDER BY ticker_symbol: nothing orders two rows of one symbol.
BySymbol(a, b) == a.symbol < b.symbol

\* orderClause without a sort column: newest first, the id breaks the ties.
NewestFirst(a, b) == a.day > b.day \/ (a.day = b.day /\ a.id > b.id)

\* ORDER BY announcement_date: nothing orders two announcements of one day.
ByAnnouncementDate(a, b) == a.day < b.day

Precedes(a, b) ==
    CASE listing = "history"       -> NewestFirst(a, b)
      [] listing = "dates"         -> a > b
      [] listing = "announcements" -> ByAnnouncementDate(a, b)
      [] OTHER                     -> BySymbol(a, b)

\* Every order the database may deliver a set of items in.
Deliveries(items) ==
    {q \in SetToSeqs(items) : \A i, j \in DOMAIN q : i < j => ~Precedes(q[j], q[i])}

PagingInit ==
    /\ rows \in {t \in SUBSET TableRows : t # {} /\ Cardinality(t) <= MaxTableRows}
    /\ listing \in Listings
    /\ step = IF listing \in CursorListings THEN "find" ELSE "count"
    /\ page = 1 /\ cursor = 0 /\ total = 0 /\ dates = {} /\ changes = 0
    /\ answered = <<>> /\ stable = rows /\ ever = rows

\* Another transaction stores or deletes a row while the client reads.
ChangeTable ==
    /\ step # "done" /\ changes < MaxTableChanges
    /\ changes' = changes + 1
    /\ \/ \E r \in TableRows \ rows : rows' = rows \cup {r} /\ ever' = ever \cup {r} /\ UNCHANGED stable
       \/ \E r \in rows : rows' = rows \ {r} /\ stable' = stable \ {r} /\ UNCHANGED ever
    /\ UNCHANGED <<listing, step, page, cursor, total, dates, answered>>

\* Mutant of NextCursor: the cursor names the last item of the page.
LastOfPage(found) == found[PageLimit].symbol

\* The cursor is the first item beyond the page: one more than the limit is read.
NextCursor(found) == found[PageLimit + 1].symbol

\* One page of a cursor listing: the items from the cursor on, limit + 1 of them.
\* The queries compare with >=, where readme.md documents symbol_from as >.
FindFromCursor ==
    /\ listing \in CursorListings /\ step = "find" /\ page <= MaxPagesRead
    /\ \E q \in Deliveries({i \in Items(rows) : i.symbol >= cursor}) :
        LET found == SubSeq(q, 1, LeastOf(Len(q), PageLimit + 1))
            more == Len(found) > PageLimit
        IN /\ answered' = Append(answered, SubSeq(found, 1, LeastOf(Len(found), PageLimit)))
           /\ cursor' = IF more THEN NextCursor(found) ELSE cursor
           /\ step' = IF more THEN "find" ELSE "done"
    /\ page' = page + 1
    /\ UNCHANGED <<rows, listing, total, dates, stable, ever, changes>>

\* CountWithFilter and CountDistinctDates: a query of its own before the page's.
CountRows ==
    /\ step = "count" /\ page <= MaxPagesRead
    /\ total' = Cardinality(Items(rows))
    /\ step' = "find"
    /\ UNCHANGED <<rows, listing, page, cursor, dates, answered, stable, ever, changes>>

TotalPages == IF total = 0 THEN 1 ELSE (total + PageLimit - 1) \div PageLimit

Offset == (page - 1) * PageLimit

PageOf(q) == SubSeq(q, Offset + 1, LeastOf(Len(q), Offset + PageLimit))

Turn ==
    /\ page' = page + 1
    /\ step' = IF page >= TotalPages THEN "done" ELSE "count"

\* LIMIT and OFFSET over the history or the announcements.
FindPage ==
    /\ listing \in {"history", "announcements"} /\ step = "find"
    /\ \E q \in Deliveries(rows) : answered' = Append(answered, PageOf(q))
    /\ Turn
    /\ UNCHANGED <<rows, listing, cursor, total, dates, stable, ever, changes>>

\* The page of days; without a day on it the answer is empty at once.
FindDistinctDates ==
    /\ listing = "dates" /\ step = "find"
    /\ \E q \in Deliveries(DistinctDates(rows)) : dates' = Range(PageOf(q))
    /\ IF dates' = {} THEN answered' = Append(answered, <<>>) /\ Turn
                      ELSE step' = "byDates" /\ UNCHANGED <<answered, page>>
    /\ UNCHANGED <<rows, listing, cursor, total, stable, ever, changes>>

\* All rows of the days of the page, in a query of its own.
FindByDates ==
    /\ step = "byDates"
    /\ LET OfDates == {r \in rows : r.day \in dates}
       IN \E q \in {x \in SetToSeqs(OfDates) :
                       \A i, j \in DOMAIN x : i < j => ~NewestFirst(x[j], x[i])} :
              answered' = Append(answered, q)
    /\ Turn
    /\ UNCHANGED <<rows, listing, cursor, total, dates, stable, ever, changes>>

PagingNext ==
    ChangeTable \/ FindFromCursor \/ CountRows \/ FindPage \/ FindDistinctDates \/ FindByDates

PagingSpec == PagingInit /\ [][PagingNext]_pagingVars
-----------------------------------------------------------------------------
Answered == FlattenSeq(answered)
Times(item) == Cardinality({i \in DOMAIN Answered : Answered[i] = item})
Crowded == \E a, b \in ever : a # b /\ a.symbol = b.symbol

\* A client that follows the cursors of brands to the end has seen every row
\* that was there all the while, in the order of the symbols and none twice,
\* as long as no two rows share a symbol, whatever is stored or deleted
\* meanwhile; and a cursor always moves on.  It rests on both ends being
\* inclusive: with symbol_from as readme.md:271 and 915 document it ("larger
\* than"), the next_cursor of the code would lose a row at every page.
CursorsVisitEverything ==
    listing \in {"brands", "highVolume"} /\ ~Crowded =>
        /\ \A i, j \in DOMAIN Answered : i < j => Answered[i].symbol < Answered[j].symbol
        /\ step = "done" => stable \subseteq Range(Answered)
        /\ step = "find" /\ answered # <<>> => cursor > Last(Answered).symbol

\* The multiple-signal stocks of one day are each listed once, unless rows
\* change meanwhile: a new day would switch the list the cursor belongs to.
SignalsVisitedOnce ==
    listing = "signals" /\ changes = 0 =>
        /\ \A i, j \in DOMAIN Answered : i < j => Answered[i].symbol < Answered[j].symbol
        /\ step = "done" => Range(Answered) = SignalGroups(rows)

\* Pages by number show every row exactly once and newest first, unless rows
\* change meanwhile; for the announcements, unless two share a day.
PagesVisitOnce ==
    /\ listing \in {"history", "dates"} /\ changes = 0 =>
         /\ \A i, j \in DOMAIN Answered : i < j => NewestFirst(Answered[i], Answered[j])
         /\ step = "done" => Range(Answered) = rows
    /\ /\ listing = "announcements" /\ changes = 0 /\ step = "done"
       /\ \A a, b \in rows : a # b => a.day # b.day
       => \A r \in rows : Times(r) = 1

\* What a client may rely on when it reads a listing page by page.
PagesAreExact == CursorsVisitEverything /\ SignalsVisitedOnce /\ PagesVisitOnce
=============================================================================
