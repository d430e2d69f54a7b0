\* The store's session against humans, adapters, retries and the clock.
CONSTANTS
  r1 = r1
  r2 = r2
  Requests = {r1, r2}
  Proposals <- AskProposals
  Gates <- ReviewGates
  Scopes = {"web", "phone"}
  Keys = {"k1", "k2"}
  MaxTime = 1
  Never = Never
  None = None
SPECIFICATION Spec
INVARIANTS TypeOK ClosedOnce ResolvedAsAnswered ReviewedInTime RetriesChangeNothing
PROPERTIES OneFinalDecision DueRequestsClose
CHECK_DEADLOCK FALSE
