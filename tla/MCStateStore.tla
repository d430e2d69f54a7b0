---------------------------- MODULE MCStateStore ----------------------------
(***************************************************************************)
(* A small instance of StateStore: two approvals, a clock with two values, *)
(* which TLC may set back at every version.                                *)
(***************************************************************************)
EXTENDS StateStore, TLC

CONSTANTS p, q

SomeApprovals == {p, q}
ClockValues == {1, 2}
Symmetry == Permutations(SomeApprovals)
=============================================================================
