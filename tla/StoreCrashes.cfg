CONSTANTS
  p = p
  q = q
  None = None
  Approvals <- SomeApprovals
  Stamps <- ClockValues
  MaxVersions = 3
  MaxFailures = 2
SYMMETRY Symmetry
SPECIFICATION Spec
INVARIANTS TypeOK ApprovalsNeverLost OneHome
PROPERTY Atomic
CHECK_DEADLOCK FALSE
