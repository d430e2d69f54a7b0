\* Two tasks of humans go through their phases; leases run out, with and without takeover.
CONSTANTS
  h = h
  g = g
  a = a
  l1 = l1
  l2 = l2
  Tasks = {h, g}
  FirstTasks = {h}
  Order <- InOrder
  DependsOn <- Independent
  Human = {h, g}
  Commanded = {}
  HighRisk = {}
  Leases = {l1, l2}
  LeaseTTL = 1
  Modes <- Anyhow
  TaskActions = {"start_phase", "complete_phase", "fail_phase"}
  MaxTime = 1
  MaxFailures = 0
  None = None
SPECIFICATION Spec
INVARIANT OneAuthority
PROPERTY StaleLeasesRecycle
CHECK_DEADLOCK FALSE
