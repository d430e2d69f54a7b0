--------------------------- MODULE MCTaskHistory ---------------------------
(***************************************************************************)
(* A small instance of TaskHistory.                                        *)
(***************************************************************************)
EXTENDS TaskHistory, TLC

CONSTANTS plan, test

ThreePlaces == 1..3
TwoIds == 1..2
Symmetry == Permutations(Kinds)
=============================================================================
