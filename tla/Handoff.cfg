\* Copies, pastes, submissions and registrations between two terminals.
CONSTANTS
  d1 = d1
  d2 = d2
  p1 = p1
  p2 = p2
  Terminals = {"a", "b"}
  Texts = {"x"}
  Copied = {"a"}
  Agents = {"b"}
  Starts <- TwoDraftsOrOld
  Calls = {p1, p2}
  Ids = {1, 2, 3}
  MaxCopies = 1
SPECIFICATION HandoffSpec
SYMMETRY Symmetry
PROPERTIES PinnedIsKept NoLeak OneCardPerDraft
CHECK_DEADLOCK FALSE
