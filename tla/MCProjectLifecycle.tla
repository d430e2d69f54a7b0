------------------------- MODULE MCProjectLifecycle -------------------------
(***************************************************************************)
(* A small instance of ProjectLifecycle for TLC: two milestones, of which  *)
(* the first may be dropped, and two tasks.                                *)
(***************************************************************************)
EXTENDS ProjectLifecycle

StatusPlan(s, u) == <<[id |-> "m1", status |-> s], [id |-> "m2", status |-> u]>>
TwoMilestones ==
  {StatusPlan("current", "todo"), StatusPlan("done", "current"), StatusPlan("done", "done"),
   StatusPlan("current", "current"), <<[id |-> "m2", status |-> "current"]>>}
TaskContracts == [milestone : {"m1", "m2"}, deps : SUBSET Tasks]
=============================================================================
