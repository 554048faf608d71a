------------------------------ MODULE Replies ------------------------------
(***************************************************************************)
(* What the client of J-Quants makes of one reply.  A reply is a status    *)
(* and, when it is "ok", rows; "failed" stands for a request that did not  *)
(* go through, any other status and a body that is not JSON.               *)
(***************************************************************************)
Answer(error, rows) == [error |-> error, rows |-> rows]

\* GetStockBrands, GetAnnounceFinSchedule, getDailyPricesBySymbolAndRangeJQ and
\* getFinancialStatementsJQ.  The error of a refused key wraps the error of the
\* request, which is nil by then: the caller sees no error and no rows.
Fetched(status, rows) ==
    CASE status = "ok" -> Answer(FALSE, rows)
      [] status = "unauthorized" -> Answer(FALSE, <<>>)
      [] OTHER -> Answer(TRUE, <<>>)
=============================================================================
