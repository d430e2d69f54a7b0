\* A worker with two slots claims a task, and claims it again while the first
\* execution, whose lease ran out, is still being stopped.
CONSTANTS
  Workers = {"w1"}
  Leases = {1, 2}
  Slots = 2
  MaxLines = 1
SPECIFICATION Spec
INVARIANTS TypeOK DoneIsEarned ShutdownSettles
PROPERTY LostLeaseStops
CHECK_DEADLOCK FALSE
