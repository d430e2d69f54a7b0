\* Contracts, takeover and tasks of one project.
CONSTANTS
  Tasks = {"t1", "t2"}
  Contracts <- TaskContracts
  Plans <- TwoMilestones
  Starts = {"awaiting_confirmation"}
  MaxVersion = 5
SPECIFICATION Spec
INVARIANTS TypeOK ContractsFit
PROPERTY BackToWhereItWas
CHECK_DEADLOCK FALSE
