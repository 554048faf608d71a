------------------------------- MODULE MCQuiz -------------------------------
(* Constant values and symmetry for the runs of Quiz. *)
EXTENDS QuizStats, TLC

TwoPredictions == {"strong_up", "down"}
OnePrediction == {"up"}
OneMove == {1}
AllMoves == {-1, 0, 1}
NoZero == {}
ZeroOnFirstDay == Brands \X {0}

BrandSymmetry == Permutations(Brands)
GraderSymmetry == Permutations(Graders)
=============================================================================
