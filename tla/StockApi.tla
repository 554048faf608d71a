------------------------------ MODULE StockApi ------------------------------
(***************************************************************************)
(* The client of J-Quants: one call of getAllBrandDailyPricesByDate, which *)
(* collects a day's prices page by page.  A page that is not "ok" ends it.  *)
(***************************************************************************)
EXTENDS Integers, Sequences, FiniteSets, SequencesExt

CONSTANTS
    Quotes,     \* records [code, dated, close]: rows the service may serve
    MaxPages    \* bound: pages of one answer

\* A code has five places; a letter in one counts as a digit here.
ASSUME QuotesAssumption ==
    MaxPages \in Nat /\ \A q \in Quotes : q.code \in Nat /\ 10000 <= q.code /\ q.code < 100000

VARIABLES
    call,       \* the call: [status, rows], rows the prices collected so far
    served      \* history: the pages served to it

apiVars == <<call, served>>

-----------------------------------------------------------------------------
(* One page.                                                               *)

\* trimSuffixZero: a J-Quants code is the symbol followed by a digit.
TrimSuffixZero(code) == IF code % 10 = 0 THEN code \div 10 ELSE code

\* jQuantsDailyQuotesResponseToResponseInfo: a row whose date cannot be read is
\* left out of the answer.
DatedIn(page) == {i \in DOMAIN page : page[i].dated}

Converted(page) ==
    LET Nth(k) == CHOOSE i \in DatedIn(page) : Cardinality({j \in DatedIn(page) : j < i}) = k - 1
    IN  [k \in 1 .. Cardinality(DatedIn(page)) |->
            [symbol |-> TrimSuffixZero(page[Nth(k)].code), close |-> page[Nth(k)].close]]

-----------------------------------------------------------------------------
(* getAllBrandDailyPricesByDate.                                           *)

Pages == SeqOf(Quotes, 2)
IdleCall == [status |-> "idle", rows |-> <<>>]

\* A reply that ends the pages early: a closed market (210) is answered with no
\* rows and no error, everything else is an error, and a refused key is one
\* here too.
EndPages(status) ==
    [status |-> IF status = "closed" THEN "answered" ELSE "error", rows |-> <<>>]

StartCall ==
    /\ call.status \in {"idle", "answered", "error"}
    /\ call' = [status |-> "reading", rows |-> <<>>]
    /\ served' = <<>>

\* A page with a key of the next one, or the last page.
ReadPage(page, last) ==
    /\ call.status = "reading"
    /\ Len(served) < MaxPages
    /\ call' = [status |-> IF last THEN "answered" ELSE "reading",
                rows |-> call.rows \o Converted(page)]
    /\ served' = Append(served, page)

PageFails(status) ==
    /\ call.status = "reading"
    /\ call' = EndPages(status)
    /\ UNCHANGED served

ApiInit ==
    /\ call = IdleCall
    /\ served = <<>>

ApiNext ==
    \/ StartCall
    \/ \E page \in Pages, last \in BOOLEAN : ReadPage(page, last)
    \/ \E status \in {"closed", "unauthorized", "failed"} : PageFails(status)

ApiSpec == ApiInit /\ [][ApiNext]_apiVars

-----------------------------------------------------------------------------
\* The rows served whose date can be read, by page and place.
DatedServed == UNION {{<<p, i>> : i \in DatedIn(served[p])} : p \in DOMAIN served}

\* An answer without an error is the whole of the day: every row the service
\* served whose date can be read, each under a symbol no other code has, or
\* nothing at all.  A day cut short by a failing page is never passed on as if
\* it were complete (getAllBrandDailyPricesByDate).
AnswersAreWhole ==
    /\ call.status = "answered" =>
           \/ call.rows = <<>>
           \/ /\ Len(call.rows) = Cardinality(DatedServed)
              /\ \A r \in DatedServed :
                    LET q == served[r[1]][r[2]] IN
                    \E k \in DOMAIN call.rows :
                        /\ call.rows[k].symbol = TrimSuffixZero(q.code)
                        /\ call.rows[k].close = q.close
    /\ call.status = "error" => call.rows = <<>>
    /\ \A q, r \in Quotes :
           TrimSuffixZero(q.code) = TrimSuffixZero(r.code) => q.code = r.code
=============================================================================
