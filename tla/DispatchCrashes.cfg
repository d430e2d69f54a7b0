\* The server stops, and a save fails, at every point of every session.
CONSTANTS
  h = h
  g = g
  a = a
  l1 = l1
  l2 = l2
  Tasks = {h, a}
  FirstTasks = {h, a}
  Order <- InOrder
  DependsOn <- AgentWaits
  Human = {h}
  Commanded = {h, a}
  HighRisk = {h}
  Leases = {l1, l2}
  LeaseTTL = 2
  Modes <- Anyhow
  TaskActions = {"edit_text", "edit_risk"}
  MaxTime = 2
  MaxFailures = 1
  None = None
SPECIFICATION Spec
SYMMETRY Symmetry
INVARIANT DependenciesHold
PROPERTY PassedUnderLease
CHECK_DEADLOCK FALSE
