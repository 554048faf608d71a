----------------------------- MODULE FinCalendar -----------------------------
(***************************************************************************)
(* The calendar of results announcements: sync_fin_announcements upserts   *)
(* what J-Quants schedules and never deletes a row, so a postponed         *)
(* announcement leaves its old date behind; two requests read it.  Times   *)
(* are hours since midnight of day 0 in Tokyo, nine hours ahead of UTC.    *)
(***************************************************************************)
EXTENDS Integers, FiniteSets, FiniteSetsExt, Sequences, Replies

CONSTANTS
    Announcers,      \* symbols
    MaxCalendarDay,  \* bound: days
    HoursSeen        \* bound: the hours of a day at which requests come

ASSUME CalendarAssumption == MaxCalendarDay \in Nat /\ HoursSeen \subseteq 0 .. 23

Midnight(day) == 24 * day
UtcOffset == 9

VARIABLES
    now,        \* the hour
    scheduled,  \* what J-Quants shows: symbol -> day, 0 for none
    dated,      \* fin_announcement: pairs <<symbol, day>>
    synced      \* history: what the last sync that brought rows saw

calendarVars == <<now, scheduled, dated, synced>>

CalendarDay == now \div 24

\* SyncFinAnnouncements: one row per symbol and day, the others stay.  A refused
\* key is no error and brings no rows; an error of the request stores nothing.
SyncFinAnnouncements(status) ==
    LET shown == {s \in Announcers : scheduled[s] # 0}
        rows == {r \in {<<s, scheduled[s]>> : s \in shown} :
                    Fetched(status, <<1>>).rows # <<>>}
    IN  /\ dated' = dated \cup rows
        /\ synced' = IF rows = {} THEN synced ELSE scheduled
        /\ UNCHANGED <<now, scheduled>>

\* J-Quants schedules a result, postpones it, or drops it.
Reschedule(s) ==
    /\ \E day \in (CalendarDay + 1 .. MaxCalendarDay) \cup {0} :
           scheduled' = [scheduled EXCEPT ![s] = day]
    /\ UNCHANGED <<now, dated, synced>>

HoursPass ==
    /\ \E hour \in HoursSeen, day \in {CalendarDay, CalendarDay + 1} :
        /\ day <= MaxCalendarDay
        /\ Midnight(day) + hour > now
        /\ now' = Midnight(day) + hour
    /\ UNCHANGED <<scheduled, dated, synced>>

\* time.Now().Truncate(24*time.Hour): the last midnight of UTC, which is nine
\* o'clock in Tokyo.
TruncatedNow == now - ((now - UtcOffset) % 24)

DaysOf(s) == {r[2] : r \in {x \in dated : x[1] = s}}

\* FindNextBySymbol: the first date at or after the truncated time.
FindNext(s) ==
    LET next == {d \in DaysOf(s) : Midnight(d) >= TruncatedNow}
    IN  IF next = {} THEN {} ELSE {Min(next)}

\* FindWithFilter: the dates of the request are read as midnights of UTC, so a
\* range begins nine hours into its first day.
Between(from, to) ==
    {r \in dated : /\ Midnight(r[2]) >= Midnight(from) + UtcOffset
                   /\ Midnight(r[2]) <= Midnight(to) + UtcOffset}

CalendarInit ==
    /\ now = 24
    /\ scheduled = [s \in Announcers |-> 0]
    /\ dated = {}
    /\ synced = [s \in Announcers |-> 0]

CalendarNext ==
    \/ \E status \in {"ok", "unauthorized", "failed"} : SyncFinAnnouncements(status)
    \/ \E s \in Announcers : Reschedule(s)
    \/ HoursPass

CalendarSpec == CalendarInit /\ [][CalendarNext]_calendarVars

-----------------------------------------------------------------------------
\* The next announcement of a brand is never one of the past and never later
\* than the one J-Quants scheduled when the calendar was last synced; it may be
\* an earlier date that was given up since.  From nine o'clock on the
\* announcement of the day itself is no longer shown (FindNextBySymbol).
NextIsUpcoming ==
    \A s \in Announcers :
        /\ \A d \in FindNext(s) : d >= CalendarDay
        /\ synced[s] > CalendarDay => \E d \in FindNext(s) : d <= synced[s]
        /\ synced[s] = CalendarDay /\ now < Midnight(CalendarDay) + UtcOffset =>
               FindNext(s) = {CalendarDay}

\* A range of days has every announcement after its first day, through its last,
\* and adjacent ranges share none (GetFinAnnouncements).  The day that readme.md:379
\* calls the start of the range (開始日) is not in it: the handler parses it as
\* midnight of UTC, which for the database is nine o'clock in Tokyo.
RangesPartition ==
    \A a, b, c \in 1 .. MaxCalendarDay : a < b /\ b < c =>
        /\ Between(a, b) \cap Between(b, c) = {}
        /\ Between(a, b) \cup Between(b, c) = Between(a, c)
        /\ {r \in dated : a < r[2] /\ r[2] <= c} \subseteq Between(a, c)
=============================================================================
