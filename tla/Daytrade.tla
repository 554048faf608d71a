------------------------------ MODULE Daytrade ------------------------------
(***************************************************************************)
(* The day trading journal: importing a broker's CSV file into             *)
(* daytrade_executions, notes attached to trades that exist only as groups *)
(* of those rows, and the statistics computed from both on every request.  *)
(*                                                                         *)
(* An execution is the data columns of one line; quantities and prices are *)
(* part of its identity and are not spelled out.  A file has one layout,   *)
(* and its header may fail to be recognised, in which case the columns are *)
(* read at the positions of the old layout.                                *)
(***************************************************************************)
EXTENDS Integers, Sequences, FiniteSets, SequencesExt, FiniteSetsExt, Functions

CONSTANTS
    Executions,     \* records [day, sym, side, margin, pl]: what a line says
    LiveBrands,     \* symbol -> its live stock_brand rows (0 once delisted)
    NoteContents,   \* records [tags, memo] a client may send: a list of tags,
                    \* and whether there is a memo or a stop price
    MaxOccurrence,  \* the largest occurrence_no (255, an unsigned tinyint)
    FileLines,      \* bound: the sequences of lines a file may consist of
    MaxImports,     \* bound: imports of a behaviour
    MaxNotes        \* bound: notes written in a behaviour

\* Days are numbers and results whole yen; a client sends lists of tags.
ASSUME JournalAssumption ==
    /\ \A e \in Executions : e.day \in Int /\ e.pl \in Int
    /\ LiveBrands \in [{e.sym : e \in Executions} -> Nat]
    /\ MaxOccurrence \in Nat
    /\ FileLines \subseteq Seq(Executions)
    /\ \A c \in NoteContents :
           /\ c = [tags |-> c.tags, memo |-> c.memo]
           /\ c.memo \in BOOLEAN /\ c.tags \in Seq(ToSet(c.tags))

TradeDays == {e.day : e \in Executions}
TradeSymbols == {e.sym : e \in Executions}

VARIABLES
    journal,     \* daytrade_executions: execution columns, occurrence, id
    notes,       \* daytrade_trade_notes: trade key -> its content
    importReply, \* what the last import answered
    imported,    \* history: day -> its lines, at their places in the last file
                 \* that named it
    spent        \* imports and notes so far (the bounds)

dtVars == <<journal, notes, importReply, imported, spent>>

-----------------------------------------------------------------------------
(* Parsing.                                                                *)

\* detectColumnMap: where the kind of trade is read.  The new layout has no such
\* column; a header that is not recognised leaves the positions of the old one.
KindColumn(file) == IF file.headed /\ file.layout = "new" THEN "none" ELSE "second"

\* The second column of a line: the kind of trade in the old layout, the account
\* in the new one.
SecondColumn(file, e) == IF file.layout = "old" THEN e.side ELSE "account"

\* buildExecutionMapped
Mapped(file, e) ==
    [day |-> e.day, sym |-> e.sym, pl |-> e.pl, margin |-> e.margin,
     kind |-> IF KindColumn(file) = "none" THEN "" ELSE SecondColumn(file, e)]

\* ParseSBIDaytradeCSV: the lines of the file, in order.
Parsed(file) == [i \in DOMAIN file.lines |-> Mapped(file, file.lines[i])]

\* normalizeDirection
Direction(r) == IF r.kind # "" THEN r.kind ELSE r.margin

\* assignOccurrenceNo: the n-th line of equal columns gets n - 1.
Occurrence(lines, i) ==
    Cardinality({j \in 1 .. i - 1 : lines[j] = lines[i]})

\* Mutant of Stored: every line starts at occurrence 0 of its own.
StoredOnce(lines) == {[cols |-> lines[i], occ |-> 0, at |-> i] : i \in DOMAIN lines}

\* INSERT IGNORE: an occurrence past the column's range is cut to its maximum,
\* and a row whose unique key is taken is left out.
Stored(lines) ==
    {[cols |-> lines[i], occ |-> Occurrence(lines, i), at |-> i] :
        i \in {k \in DOMAIN lines : Occurrence(lines, k) <= MaxOccurrence}}

-----------------------------------------------------------------------------
(* Requests.                                                               *)

NextRowId == 1 + Max({r.id : r \in journal} \cup {0})

\* What DeleteBySourceAndDates leaves.
KeptRows(dates) == {r \in journal : r.cols.day \notin dates}

\* ImportSBICsv: the lines replace the rows of the days the file names, in one
\* transaction.
ImportLines(file) ==
    LET lines == Parsed(file)
        dates == {lines[i].day : i \in DOMAIN lines}
        kept == KeptRows(dates)
        new == {[cols |-> s.cols, occ |-> s.occ, id |-> NextRowId - 1 + s.at] :
                    s \in Stored(lines)}
    IN
    /\ spent.imports < MaxImports
    /\ spent' = [spent EXCEPT !.imports = @ + 1]
    /\ lines # <<>>
    /\ journal' = kept \cup new
    /\ importReply' = [inserted |-> Cardinality(new),
                       skipped |-> Len(lines) - Cardinality(new),
                       deleted |-> Cardinality(journal \ kept),
                       total |-> Len(lines)]
    /\ imported' = [d \in TradeDays |->
            IF d \in dates
            THEN [i \in {k \in DOMAIN lines : lines[k].day = d} |-> lines[i]]
            ELSE imported[d]]
    /\ UNCHANGED notes

NoRows == [inserted |-> 0, skipped |-> 0, deleted |-> 0, total |-> 0]

\* A file that is too large, cannot be decoded, or has a line that cannot be
\* parsed is refused as a whole, and a database error rolls the transaction
\* back; a file without a data line is answered with zeros.
ImportStoresNothing ==
    /\ spent.imports < MaxImports
    /\ spent' = [spent EXCEPT !.imports = @ + 1]
    /\ importReply' \in {importReply, NoRows}
    /\ UNCHANGED <<journal, notes, imported>>

Blank(content) == content.tags = <<>> /\ ~content.memo

\* UpsertTradeNote: the client names a trade by symbol, day and direction; a
\* note with nothing in it is deleted.
UpsertNote(key, content) ==
    /\ spent.notes < MaxNotes
    /\ spent' = [spent EXCEPT !.notes = @ + 1]
    /\ notes' = IF Blank(content)
                THEN [k \in DOMAIN notes \ {key} |-> notes[k]]
                ELSE [k \in DOMAIN notes \cup {key} |->
                          IF k = key THEN content ELSE notes[k]]
    /\ UNCHANGED <<journal, importReply, imported>>

-----------------------------------------------------------------------------
(* What the requests for statistics compute.                               *)

Pl(r) == r.cols.pl

InRange(from, to) == {r \in journal : from <= r.cols.day /\ r.cols.day <= to}

Winners(S) == {r \in S : Pl(r) > 0}
Losers(S) == {r \in S : Pl(r) < 0}

\* One bucket of Aggregate, AggregateStats and AggregateByTickerSymbol.
Bucket(S) ==
    [pl |-> SumFunction([r \in S |-> Pl(r)]), count |-> Cardinality(S),
     profit |-> SumFunction([r \in Winners(S) |-> Pl(r)]),
     loss |-> SumFunction([r \in Losers(S) |-> Pl(r)]),
     wins |-> Cardinality(Winners(S)), losses |-> Cardinality(Losers(S))]

\* The members of S from the least value of a key to the largest.
InOrder(S, key) ==
    [n \in 1 .. Cardinality(S) |->
        CHOOSE x \in S : Cardinality({y \in S : key[y] < key[x]}) = n - 1]

\* Aggregate: the rows grouped by the first day of their day, month or year, the
\* groups in order.
Aggregate(from, to, bucketDate) ==
    LET S == InRange(from, to)
        dates == {bucketDate[r.cols.day] : r \in S}
        ordered == InOrder(dates, [d \in dates |-> d])
    IN  [i \in DOMAIN ordered |->
            Bucket({r \in S : bucketDate[r.cols.day] = ordered[i]})]

\* Months are of thirty days, and years of twelve months.
EachDay == [d \in TradeDays |-> d]
FirstOfMonth == [d \in TradeDays |-> d - (d % 30)]
FirstOfYear == [d \in TradeDays |-> d - (d % 360)]

Daily(from, to) == Aggregate(from, to, EachDay)

\* With the granularity all.
Overall(from, to) == Bucket(InRange(from, to))

\* AggregateStats: with the best and the worst line, 0 when there is none.
Best(S) == IF S = {} THEN 0 ELSE Max({Pl(r) : r \in S})
Worst(S) == IF S = {} THEN 0 ELSE Min({Pl(r) : r \in S})

\* FindByDate: the lines of a day in the order they were stored.
OfDay(d) == InOrder(InRange(d, d), [r \in InRange(d, d) |-> r.id])

\* GetCoveredRange: from the first to the last day with a line.
CoveredRange ==
    LET days == {r.cols.day : r \in journal}
    IN  IF days = {} THEN <<>> ELSE <<Min(days), Max(days)>>

\* AggregateByTickerSymbol joins the live brand rows of the symbol, so a row is
\* counted once for each of them, and once when there is none.
JoinedOnSymbol(from, to, s) ==
    {x \in InRange(from, to) : x.cols.sym = s} \X (1 .. Max({1, LiveBrands[s]}))

SymbolSummary(from, to) ==
    [s \in {r.cols.sym : r \in InRange(from, to)} |->
        LET J == JoinedOnSymbol(from, to, s)
        IN  [pl |-> SumFunction([j \in J |-> Pl(j[1])]), count |-> Cardinality(J)]]

\* ComputeEquityStats: cumulative result, its peak and trough from 0, the worst
\* fall, the best climb, and the longest streak of losing days.
EquityStep(a, b) ==
    LET c == a.cum + b.pl
        peak == Max({a.peak, c})
        trough == Min({a.trough, c})
        streak == IF b.pl < 0 THEN a.streak + 1 ELSE 0
    IN  [cum |-> c, peak |-> peak, trough |-> trough, streak |-> streak,
         down |-> Max({a.down, peak - c}), up |-> Max({a.up, c - trough}),
         worst |-> Max({a.worst, streak})]

EquityStart == [cum |-> 0, peak |-> 0, trough |-> 0, streak |-> 0,
                down |-> 0, up |-> 0, worst |-> 0]

EquityStats(daily) == FoldLeft(EquityStep, EquityStart, daily)

\* GetPeriodStats: the aggregates of a period and its equity statistics.
PeriodStats(from, to) ==
    LET S == InRange(from, to)
        equity == EquityStats(Daily(from, to))
    IN  [all |-> Bucket(S), best |-> Best(S), worst |-> Worst(S),
         down |-> equity.down, up |-> equity.up, streak |-> equity.worst]

\* BuildTradeApprox: one trade per symbol, day and direction.
TradeKey(r) == [day |-> r.cols.day, sym |-> r.cols.sym, dir |-> Direction(r.cols)]

Trades(from, to) ==
    LET S == InRange(from, to)
    IN  {[key |-> k, pl |-> Bucket({r \in S : TradeKey(r) = k}).pl] :
            k \in {TradeKey(r) : r \in S}}

\* A trade without a note is shown with an empty one.
NoNote == [tags |-> <<>>, memo |-> FALSE]

\* MergeTradesWithNotes
NoteOf(t) == IF t.key \in DOMAIN notes THEN notes[t.key] ELSE NoNote

TimesListed(tag, content) ==
    Cardinality({i \in DOMAIN content.tags : content.tags[i] = tag})

\* ComputeTagStats: a trade counts for each tag of its note's list, twice for
\* one listed twice.
TagStat(T, tag) ==
    [count |-> SumFunction([t \in T |-> TimesListed(tag, NoteOf(t))]),
     pl |-> SumFunction([t \in T |-> TimesListed(tag, NoteOf(t)) * t.pl])]

\* What sort.Slice may make of S: nothing stands behind what it should precede,
\* and equals stand in any order.
Arrangements(S, Less(_, _)) ==
    {f \in Bijection(1 .. Cardinality(S), S) :
        \A i, j \in DOMAIN f : i < j => ~Less(f[j], f[i])}

\* computeLossConcentration: losing trades, the largest loss first, and the
\* share of the n worst, as a pair <<part, whole>>.
LosingTrades(T) == {t \in T : t.pl < 0}
WorstFirst(T) == Arrangements(LosingTrades(T), LAMBDA a, b : a.pl < b.pl)

LossShare(w, n) ==
    LET LossOf(places) == SumFunction([i \in places |-> -w[i].pl])
    IN  <<LossOf({i \in DOMAIN w : i <= n}), LossOf(DOMAIN w)>>

\* computeFavoriteTraps: the symbols traded at a loss, most traded first; of
\* equally traded ones the larger loss first.
SymbolTrades(T, s) == {t \in T : t.key.sym = s}
SymbolPl(T, s) == SumFunction([t \in SymbolTrades(T, s) |-> t.pl])

FavoriteTraps(T) ==
    Arrangements({s \in {t.key.sym : t \in T} : SymbolPl(T, s) < 0},
                 LAMBDA a, b :
                    LET na == Cardinality(SymbolTrades(T, a))
                        nb == Cardinality(SymbolTrades(T, b))
                    IN  na > nb \/ (na = nb /\ SymbolPl(T, a) < SymbolPl(T, b)))

-----------------------------------------------------------------------------
ImportFiles ==
    {[layout |-> l, headed |-> h, lines |-> s] :
        l \in {"old", "new"}, h \in BOOLEAN, s \in FileLines}

DtInit ==
    /\ journal = {}
    /\ notes = [k \in {} |-> {}]
    /\ importReply = NoRows
    /\ imported = [d \in TradeDays |-> [i \in {} |-> {}]]
    /\ spent = [imports |-> 0, notes |-> 0]

DtNext ==
    \/ \E file \in ImportFiles : ImportLines(file)
    \/ ImportStoresNothing
    \/ \E r \in journal, content \in NoteContents :
           UpsertNote(TradeKey(r), content)

DtSpec == DtInit /\ [][DtNext]_dtVars

-----------------------------------------------------------------------------
\* The rows of a day are the lines last imported for it, each as often as the
\* file has it, up to the number of occurrences the column can tell apart: no
\* import duplicates a row or loses one of another day (ImportSBICsv deletes by
\* date and inserts with IGNORE).
ImportIsExact ==
    \A d \in TradeDays : LET lines == imported[d] IN
        \A c \in {lines[i] : i \in DOMAIN lines}
                    \cup {r.cols : r \in {x \in journal : x.cols.day = d}} :
            Cardinality({r \in journal : r.cols = c}) =
                Min({MaxOccurrence + 1,
                     Cardinality({i \in DOMAIN lines : lines[i] = c})})

\* A note stays with its trade through any import that still has a line of that
\* day, symbol and direction, and is given to no other trade.
NotesFollowTrades ==
    \A k \in DOMAIN notes :
        LET T == Trades(k.day, k.day)
            lines == imported[k.day]
        IN  /\ (\E i \in DOMAIN lines :
                   lines[i].sym = k.sym /\ Direction(lines[i]) = k.dir)
                   => \E t \in T : t.key = k /\ NoteOf(t) = notes[k]
            /\ \A t \in T : NoteOf(t) = notes[k] =>
                   t.key = k \/ t.key \in DOMAIN notes

\* The groups of a summary add up to the whole, whatever they are grouped by.
AddUpTo(buckets, all) ==
    /\ SumFunction([i \in DOMAIN buckets |-> buckets[i].pl]) = all.pl
    /\ SumFunction([i \in DOMAIN buckets |-> buckets[i].count]) = all.count

\* Every view of the journal adds up to the same result: the days, months and
\* years, the symbols that have at most one live brand row, the trades and the
\* total; the favourite traps lose no less than that, and a losing line without
\* a winning one shows in the draw down.
ViewsAgree ==
    \A from, to \in TradeDays :
        LET all == Overall(from, to)
            T == Trades(from, to)
            stats == PeriodStats(from, to)
        IN
        /\ \A bucketDate \in {EachDay, FirstOfMonth, FirstOfYear} :
               AddUpTo(Aggregate(from, to, bucketDate), all)
        /\ SumFunction([t \in T |-> t.pl]) = all.pl
        /\ \A s \in DOMAIN SymbolSummary(from, to) :
               LiveBrands[s] <= 1 => SymbolSummary(from, to)[s].pl = SymbolPl(T, s)
        /\ FavoriteTraps(T) # {}
        /\ \A traps \in FavoriteTraps(T) :
               SumFunction([i \in DOMAIN traps |-> SymbolPl(T, traps[i])]) <= all.pl
        /\ all.profit + all.loss = all.pl /\ all.wins + all.losses <= all.count
        /\ stats.worst < 0 => stats.best > 0 \/ stats.down >= -stats.worst
        /\ CoveredRange # <<>> =>
               /\ CoveredRange[1] <= CoveredRange[2]
               /\ OfDay(CoveredRange[1]) # <<>> /\ OfDay(CoveredRange[2]) # <<>>

\* The draw down, the run up and the losing streak are those of their
\* definitions: the largest fall and climb between any two points of the equity
\* curve that starts at 0, and the longest run of losing days.
EquityIsExtremal ==
    \A from, to \in TradeDays :
        LET daily == Daily(from, to)
            n == Len(daily)
            Cum(i) == SumFunction([k \in 1 .. i |-> daily[k].pl])
            stats == PeriodStats(from, to)
            spans == {p \in (0 .. n) \X (0 .. n) : p[1] <= p[2]}
        IN  /\ stats.down = Max({Cum(p[1]) - Cum(p[2]) : p \in spans})
            /\ stats.up = Max({Cum(p[2]) - Cum(p[1]) : p \in spans})
            /\ stats.streak = Max({0} \cup
                   {p[2] - p[1] : p \in {q \in spans :
                        \A k \in q[1] + 1 .. q[2] : daily[k].pl < 0}})

\* The n worst trades lost at least as much as any n trades did, and a larger n
\* never has a smaller share of the losses, however equal losses are ordered;
\* there always is an order for sort.Slice to find (computeLossConcentration).
WorstTradesDominate ==
    \A from, to \in TradeDays : LET T == Trades(from, to) IN
        /\ WorstFirst(T) # {}
        /\ \A w \in WorstFirst(T) :
               /\ \A n \in {1, 3, 5} : \A S \in SUBSET LosingTrades(T) :
                      Cardinality(S) <= n =>
                          SumFunction([t \in S |-> -t.pl]) <= LossShare(w, n)[1]
               /\ LossShare(w, 1)[1] <= LossShare(w, 3)[1]
               /\ LossShare(w, 5)[1] <= LossShare(w, 5)[2]

\* Tag statistics count a trade once for each time its note lists the tag,
\* however many lines the trade is made of, and leave out the notes whose trade
\* no import has any more (ComputeTagStats).
TagsCountTrades ==
    \A d \in TradeDays, tag \in UNION {ToSet(c.tags) : c \in NoteContents} :
        TagStat(Trades(d, d), tag).count =
            SumFunction([k \in {k \in DOMAIN notes :
                                   k.day = d /\ \E r \in journal : TradeKey(r) = k}
                            |-> TimesListed(tag, notes[k])])

\* The answer to an import accounts for each line of the file, and what it says
\* was inserted is what its days now hold.
ReplyCountsRows ==
    /\ importReply.inserted + importReply.skipped = importReply.total
    /\ Cardinality(journal) >= importReply.inserted

\* Everything the journal shows follows from the files imported and the notes
\* written, whatever the order of the requests (the parts above).
JournalIsExact ==
    /\ ImportIsExact
    /\ ReplyCountsRows
    /\ NotesFollowTrades
    /\ ViewsAgree
    /\ EquityIsExtremal
    /\ WorstTradesDominate
    /\ TagsCountTrades
=============================================================================
