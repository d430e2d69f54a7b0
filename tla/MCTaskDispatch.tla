--------------------------- MODULE MCTaskDispatch ---------------------------
(***************************************************************************)
(* Small instances of TaskDispatch for TLC: tasks humans asked for, a task *)
(* an agent asked for, and so few leases that a clock of one or two ticks  *)
(* sees them expired and drawn again, or renewed (DispatchCrashes).        *)
(***************************************************************************)
EXTENDS TaskDispatch, TLC

CONSTANTS h, g, a, l1, l2

\* A human's task comes first; the agent's waits for it, or does not.
InOrder == [t \in Tasks |-> CASE t = h -> 1 [] t = a -> 2 [] OTHER -> 3]
Independent == [t \in Tasks |-> {}]
AgentWaits == [t \in Tasks |-> IF t = a THEN {h} ELSE {}]

UnderWay == {"active", "manual"}
Anyhow == {"", "active", "manual"}

Symmetry == Permutations(Leases)
=============================================================================
