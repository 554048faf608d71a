----------------------------- MODULE MCJournal -----------------------------
(***************************************************************************)
(* One run for two tables of rows that share no state: the day trading     *)
(* journal, and the adjusted prices while batches overlap.  The value of   *)
(* subject says which of them a behaviour is about.                        *)
(***************************************************************************)
EXTENDS MCAnalyzePrices, Daytrade

VARIABLE subject

-----------------------------------------------------------------------------
(* The day trading journal: three kinds of lines, files of up to two lines *)
(* and some of three, and a symbol with and one without a brand row.       *)

Long == [day |-> 1, sym |-> "s1", side |-> "long", margin |-> "sellout", pl |-> -2]
Short == [day |-> 1, sym |-> "s1", side |-> "short", margin |-> "buyback", pl |-> 1]
Other == [day |-> 2, sym |-> "s2", side |-> "long", margin |-> "sellout", pl |-> -1]

ThreeLines == {Long, Short, Other}
LinesOfFiles ==
    {<<>>} \cup UNION {[1 .. n -> {Long, Short, Other}] : n \in 1 .. 2}
        \cup {<<Long, Long, Long>>, <<Long, Short, Long>>, <<Other, Long, Short>>}
OneBrandLive == [s1 |-> 1, s2 |-> 0]
ThreeContents ==
    {[tags |-> <<>>, memo |-> FALSE], [tags |-> <<"t1", "t1">>, memo |-> FALSE],
     [tags |-> <<>>, memo |-> TRUE]}

-----------------------------------------------------------------------------
BothInit ==
    /\ subject \in {"journal", "prices"}
    /\ DtInit /\ Init

BothNext ==
    /\ UNCHANGED subject
    /\ IF subject = "journal" THEN DtNext ELSE UNCHANGED dtVars
    /\ IF subject = "prices" THEN Next ELSE UNCHANGED vars

BothSpec == BothInit /\ [][BothNext]_<<subject, dtVars, vars>>
=============================================================================
