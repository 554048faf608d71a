---------------------------- MODULE MCPriceStore ----------------------------
(* Constant values and symmetry for the run of PriceStore. *)
EXTENDS PriceStore, TLC

OneHoliday == {0}
StoreSymmetry == Permutations(Masters) \cup Permutations(Symbols)
=============================================================================
