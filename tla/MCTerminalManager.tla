------------------------ MODULE MCTerminalManager ------------------------
(* Small instances of TerminalManager. *)
EXTENDS TerminalManager, TLC

CONSTANTS s1, p1, p2

Symmetry == Permutations(Calls)
=============================================================================
