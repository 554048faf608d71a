---------------------------- MODULE MCDailyPicks ----------------------------
(* Constant values and symmetry for the runs of DailyPicks. *)
EXTENDS PickStats, TLC

NoForce == {FALSE}
AnyForce == {FALSE, TRUE}
OneMove == {1}

NoZero == {}
ZeroOnDayOne == Brands \X {1}

BrandSymmetry == Permutations(Brands)
=============================================================================
