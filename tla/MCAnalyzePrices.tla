-------------------------- MODULE MCAnalyzePrices --------------------------
(* Constant values for the runs of AnalyzePrices. *)
EXTENDS AnalyzePrices

OneSplit == {<<"split", 1>>}
SplitAndConsolidation == {<<"split", 1>>, <<"consolidation", 2>>}
=============================================================================
