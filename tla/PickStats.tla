----------------------------- MODULE PickStats ------------------------------
(***************************************************************************)
(* What the API answers about the daily picks: one day's list, the dates   *)
(* that have one, and the statistics of a range, read from the table while *)
(* the two pick commands write it.                                         *)
(***************************************************************************)
EXTENDS DailyPicks, FiniteSetsExt

\* The picks of some dates, each as <<date, symbol>>.
PicksOf(dates) == {k \in dates \X Brands : k[2] \in Picked(k[1])}
RowOf(k) == picks[k[1]][k[2]]

With(K, outcome) == Cardinality({k \in K : RowOf(k).outcome = outcome})

\* Mutant of Summary: a void pick counts as a pending one.
SummaryVoidPending(K) ==
    [total |-> Cardinality(K),
     evaluated |-> Cardinality({k \in K : RowOf(k).evaluated /\ RowOf(k).outcome # "void"}),
     win |-> With(K, "win"), lose |-> With(K, "lose"), draw |-> With(K, "draw"),
     void |-> With(K, "void"),
     measured |-> [h \in Horizons |-> Cardinality({k \in K : h \in RowOf(k).filled})]]

\* SummarizeDailyPicksForView.  "measured" is the number of picks each average
\* return is taken over; the win rate is win over win + lose + draw.
Summary(K) ==
    [total |-> Cardinality(K),
     evaluated |-> Cardinality({k \in K : RowOf(k).evaluated}),
     win |-> With(K, "win"), lose |-> With(K, "lose"), draw |-> With(K, "draw"),
     void |-> With(K, "void"),
     measured |-> [h \in Horizons |-> Cardinality({k \in K : h \in RowOf(k).filled})]]

Decided(s) == s.win + s.lose + s.draw

DatesWithPicks == {d \in Days : Picked(d) # {}}

\* GetPickDates: the latest "limit" of them.
PickDates(limit) ==
    {d \in DatesWithPicks : Cardinality({x \in DatesWithPicks : x > d}) < limit}

\* GetDay of a date with picks; without one, the latest pick date is shown.
\* The notification shown is the one of the first rank.
Day(d) ==
    LET summary == Summary(PicksOf({d})) IN
    [summary |-> summary,
     evaluated |-> summary.evaluated = summary.total,
     notified |-> \E b \in Picked(d) :
        picks[d][b].notified /\ \A x \in Picked(d) : picks[d][b].rank <= picks[d][x].rank]

\* GetStats: the totals of a range and one summary for each of its dates.
Totals(from, to) == Summary(PicksOf(from .. to))
Daily(from, to) == [d \in DatesWithPicks \cap (from .. to) |-> Day(d).summary]

-----------------------------------------------------------------------------
\* The figures of a range fit together, whatever the commands are doing: an
\* evaluated pick has exactly one outcome and no other pick has one, a range is
\* the sum of its days, and a judged pick counts in the average of every
\* horizon.
StatsAddUp ==
    LET all == Totals(0, MaxDay)
        days == Daily(0, MaxDay)
    IN  /\ Decided(all) + all.void = all.evaluated
        /\ MapThenSumSet(LAMBDA d : days[d].total, DOMAIN days) = all.total
        /\ MapThenSumSet(LAMBDA d : Decided(days[d]), DOMAIN days) = Decided(all)
        /\ \A h \in Horizons : Decided(all) <= all.measured[h]

\* A day once shown as evaluated, or as notified, is shown so ever after and
\* with the same results: readers may keep what they have seen.
ShownDaysAreFinal ==
    [][picks' = picks \/ \A d \in DatesWithPicks :
        /\ Day(d).evaluated => Day(d)'.evaluated /\ Day(d)'.summary = Day(d).summary
        /\ Day(d).notified => Day(d)'.notified]_vars
=============================================================================
