---------------------------- MODULE FinStatements ----------------------------
(***************************************************************************)
(* The weekly sweep over the statements of every brand (a checkpoint in    *)
(* Redis lets a run resume) and the valuation read from what it stored.    *)
(* Symbols are numbered in the order of FindAllMainMarkets.                *)
(***************************************************************************)
EXTENDS Integers, Sequences, FiniteSets, SequencesExt, FiniteSetsExt, Replies

CONSTANTS
    Documents,       \* records [sym, day, type, eps, version]; eps 0 is none;
                     \* versions of a document share the other identifying fields
    ValuationLimit,  \* valuationFinStatementsLimit: documents a valuation reads
    MaxSweeps,       \* bound: runs of the batch
    MaxTroubles      \* bound: failures, refused keys and lost checkpoints

FinSymbols == {d.sym : d \in Documents}

\* What the proofs ask of the documents: symbols are numbered from 1.
DocumentsAreNumbered ==
    \A d \in Documents :
        d.sym \in Nat \ {0} /\ d.day \in Int /\ d.eps \in Int /\ d.version \in Int

ASSUME DocumentsAssumption == DocumentsAreNumbered /\ ValuationLimit \in Nat

VARIABLES
    keyValid,    \* whether J-Quants accepts the key
    mainMarket,  \* the symbols of live main market brands
    filed,       \* the documents J-Quants has
    statements,  \* fin_statement
    checkpoint,  \* Redis: the last symbol done, 0 when there is none
    sweep,       \* the run: [at, brands, from, last, done, errors, max]
    due,         \* history: what was filed when the sweep began from the start
    excused,     \* history: symbols J-Quants or the database refused since then
    usedUp       \* runs and troubles so far (the bounds)

finVars == <<keyValid, mainMarket, filed, statements, checkpoint, sweep, due, excused, usedUp>>

SameDocument(d, e) == d.sym = e.sym /\ d.day = e.day /\ d.type = e.type

\* Upsert by ticker_symbol, disclosed_date and type_of_document.
Upserted(docs) ==
    {d \in statements : ~\E n \in docs : SameDocument(d, n)} \cup docs

Of(docs, s) == {d \in docs : d.sym = s}

IdleSweep == [at |-> "idle", brands |-> {}, from |-> 0, last |-> 0,
              done |-> 0, errors |-> 0, max |-> 0]

Trouble ==
    /\ usedUp.troubles < MaxTroubles
    /\ usedUp' = [usedUp EXCEPT !.troubles = @ + 1]

-----------------------------------------------------------------------------
(* The batch.                                                              *)

\* SyncFinStatementsAllStocks begins: the brands and the checkpoint are read
\* once.  max = 0 is no limit.
StartSweep(max) ==
    /\ sweep.at \in {"idle", "ended"}
    /\ usedUp.sweeps < MaxSweeps
    /\ usedUp' = [usedUp EXCEPT !.sweeps = @ + 1]
    /\ sweep' = [IdleSweep EXCEPT !.at = "asking", !.brands = mainMarket,
                                  !.from = checkpoint, !.max = max]
    /\ due' = IF checkpoint = 0 THEN {d \in filed : d.sym \in mainMarket} ELSE due
    /\ excused' = IF checkpoint = 0 THEN {} ELSE excused
    /\ UNCHANGED <<keyValid, mainMarket, filed, statements, checkpoint>>

\* Mutant of Remaining: the brand of the checkpoint's successor is skipped too.
RemainingAfterNext(sw) == {s \in sw.brands : s > sw.from + 1 /\ s > sw.last}

Remaining(sw) == {s \in sw.brands : s > sw.from /\ s > sw.last}

Limited(sw) == sw.max > 0 /\ sw.done >= sw.max

Finished(sw) == Limited(sw) \/ Remaining(sw) = {}

\* getFinancialStatementsJQ and the conversion of its rows: a refused key is
\* answered with no documents and no error.
Reply(s) ==
    Fetched(IF keyValid THEN "ok" ELSE "unauthorized", SetToSeq(Of(filed, s)))

\* SyncFinStatements of the next symbol: an empty reply upserts nothing.
Ask ==
    /\ sweep.at = "asking" /\ ~Finished(sweep)
    /\ LET s == Min(Remaining(sweep))
       IN  /\ statements' = Upserted(ToSet(Reply(s).rows))
           /\ excused' = IF keyValid THEN excused ELSE excused \cup {s}
           /\ sweep' = [sweep EXCEPT !.at = "saving", !.last = s, !.done = @ + 1]
    /\ UNCHANGED <<keyValid, mainMarket, filed, checkpoint, due, usedUp>>

\* The request or the upsert fails: counted and logged, and the sweep goes on.
AskFails ==
    /\ sweep.at = "asking" /\ ~Finished(sweep)
    /\ Trouble
    /\ LET s == Min(Remaining(sweep)) IN
        /\ excused' = excused \cup {s}
        /\ sweep' = [sweep EXCEPT !.at = "saving", !.last = s, !.done = @ + 1,
                                  !.errors = @ + 1]
    /\ UNCHANGED <<keyValid, mainMarket, filed, statements, checkpoint, due>>

\* The checkpoint is set after each symbol, whatever became of it.
SaveCheckpoint ==
    /\ sweep.at = "saving"
    /\ checkpoint' = sweep.last
    /\ sweep' = [sweep EXCEPT !.at = "asking"]
    /\ UNCHANGED <<keyValid, mainMarket, filed, statements, due, excused, usedUp>>

CheckpointNotSaved ==
    /\ sweep.at = "saving"
    /\ Trouble
    /\ sweep' = [sweep EXCEPT !.at = "asking"]
    /\ UNCHANGED <<keyValid, mainMarket, filed, statements, checkpoint, due, excused>>

\* The end, also of a limited run: the checkpoint is deleted, and an error of
\* the deletion is not looked at.
EndSweep ==
    /\ sweep.at = "asking" /\ Finished(sweep)
    /\ sweep' = [sweep EXCEPT !.at = "ended"]
    /\ checkpoint' = 0
    /\ UNCHANGED <<keyValid, mainMarket, filed, statements, due, excused, usedUp>>

EndUndeleted ==
    /\ sweep.at = "asking" /\ Finished(sweep)
    /\ Trouble
    /\ sweep' = [sweep EXCEPT !.at = "ended"]
    /\ UNCHANGED <<keyValid, mainMarket, filed, statements, checkpoint, due, excused>>

\* The process is stopped, or its context ends while it waits.
SweepDies ==
    /\ sweep.at \in {"asking", "saving"}
    /\ Trouble
    /\ sweep' = IdleSweep
    /\ UNCHANGED <<keyValid, mainMarket, filed, statements, checkpoint, due, excused>>

-----------------------------------------------------------------------------
(* Around it.                                                              *)

File(d) ==
    /\ d \notin filed
    /\ \A e \in filed : SameDocument(d, e) => e.version < d.version
    /\ filed' = {e \in filed : ~SameDocument(d, e)} \cup {d}
    /\ UNCHANGED <<keyValid, mainMarket, statements, checkpoint, sweep, due, excused, usedUp>>

List(s) ==
    /\ s \notin mainMarket
    /\ mainMarket' = mainMarket \cup {s}
    /\ UNCHANGED <<keyValid, filed, statements, checkpoint, sweep, due, excused, usedUp>>

KeyChanges ==
    /\ Trouble
    /\ keyValid' = ~keyValid
    /\ UNCHANGED <<mainMarket, filed, statements, checkpoint, sweep, due, excused>>

\* The checkpoint outlives its two days.
CheckpointExpires ==
    /\ checkpoint # 0
    /\ checkpoint' = 0
    /\ UNCHANGED <<keyValid, mainMarket, filed, statements, sweep, due, excused, usedUp>>

FinInit ==
    /\ keyValid = TRUE
    /\ mainMarket = {s \in FinSymbols : s > 1}
    /\ filed = {} /\ statements = {}
    /\ checkpoint = 0
    /\ sweep = IdleSweep
    /\ due = {} /\ excused = {}
    /\ usedUp = [sweeps |-> 0, troubles |-> 0]

FinNext ==
    \/ \E max \in {0, 1} : StartSweep(max)
    \/ Ask \/ AskFails \/ SaveCheckpoint \/ CheckpointNotSaved
    \/ EndSweep \/ EndUndeleted \/ SweepDies
    \/ \E d \in Documents : File(d)
    \/ \E s \in FinSymbols : List(s)
    \/ KeyChanges \/ CheckpointExpires

FinSpec == FinInit /\ [][FinNext]_finVars

-----------------------------------------------------------------------------
(* The valuation.                                                          *)

\* FindBySymbol orders by the date only: documents of one day come either way.
Orders(S) ==
    {q \in [1 .. Cardinality(S) -> S] :
        \A i, j \in 1 .. Cardinality(S) :
            i < j => q[i] # q[j] /\ q[i].day >= q[j].day}

\* extractFinancialValues: of the newest documents, the first of a fiscal year
\* with earnings per share.
TrailingEPS(q) ==
    LET read == {i \in DOMAIN q : i <= ValuationLimit /\ q[i].type = "FY" /\ q[i].eps # 0}
    IN  IF read = {} THEN {} ELSE {q[Min(read)]}

\* computeValuation: the price earnings ratio, absent unless there are earnings.
PER(close, q) ==
    {close \div d.eps : d \in {x \in TrailingEPS(q) : x.eps > 0}}

\* GetValuation: the figures a request may be shown, by the order it reads in.
Valuation(docs, close) == {[eps |-> TrailingEPS(q), per |-> PER(close, q)] : q \in Orders(docs)}

-----------------------------------------------------------------------------
\* What J-Quants had when a sweep began from the start is stored for each symbol
\* the checkpoint has passed, and for all of them once a sweep without a limit
\* has ended, through crashes, resumed runs and checkpoints that were not saved
\* or have expired - except for symbols whose request failed or whose key was
\* refused (SyncFinStatementsAllStocks).
SweepIsComplete ==
    \A d \in due : LET whole == sweep.at = "ended" /\ ~Limited(sweep) IN
        d.sym \notin excused /\ (d.sym <= checkpoint \/ whole) =>
            \E e \in statements : SameDocument(d, e) /\ e.version >= d.version

\* The earnings a valuation shows are those of the newest annual statement that
\* is stored, in whichever order documents of a day are read, and a newer one is
\* missed only behind ValuationLimit others (GetValuation).
ValuationIsNewest ==
    \A s \in FinSymbols : LET docs == Of(statements, s) IN
        \A shown \in Valuation(docs, 100) :
            /\ \A d \in shown.eps, e \in docs :
                   e.type = "FY" /\ e.eps # 0 => e.day <= d.day
            /\ shown.eps = {} =>
                   \A e \in docs : e.type = "FY" /\ e.eps # 0 =>
                       Cardinality({d \in docs : d.day >= e.day}) > ValuationLimit
            /\ \A per \in shown.per : per >= 0

\* The log of a sweep that ends with no error (errors=0) tells that it brought
\* what was due: a statement of every brand whose request failed is an error.
\* The code: a key that J-Quants refuses is no error.
CleanSweepIsComplete ==
    sweep.at = "ended" /\ sweep.errors = 0 /\ sweep.from = 0 /\ sweep.max = 0 =>
        \A d \in due : \E e \in statements : SameDocument(d, e) /\ e.version >= d.version
=============================================================================
