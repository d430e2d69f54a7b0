\* Sessions in the table, in tmux and on disk.
CONSTANTS
  s1 = s1
  p1 = p1
  p2 = p2
  Sessions = {s1}
  Calls = {p1, p2}
  Names = {"new"}
  Tasks = {"t"}
  Default = "Term 1"
  NoTask = "none"
  Fresh = Fresh
  Absent = Absent
  MaxTouches = 1
  MaxWrites = 2
SPECIFICATION Spec
SYMMETRY Symmetry
INVARIANTS TypeOK RestartFindsSaved
PROPERTY DeadStaysDead
CHECK_DEADLOCK FALSE
