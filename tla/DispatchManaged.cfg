\* Claims, acceptance and humans in a project under takeover.
CONSTANTS
  h = h
  g = g
  a = a
  l1 = l1
  l2 = l2
  Tasks = {h, a}
  FirstTasks = {h, a}
  Order <- InOrder
  DependsOn <- Independent
  Human = {h}
  Commanded = {h, a}
  HighRisk = {}
  Leases = {l1, l2}
  LeaseTTL = 1
  Modes <- UnderWay
  TaskActions = {"pause_task", "resume_task", "cancel_task", "edit_contract", "resume_execution"}
  MaxTime = 1
  MaxFailures = 0
  None = None
SPECIFICATION Spec
SYMMETRY Symmetry
INVARIANTS TypeOK ClosedTasksStop
PROPERTIES NoBlindRetry PausePersists
CHECK_DEADLOCK FALSE
