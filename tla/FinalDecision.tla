--------------------------- MODULE FinalDecision ---------------------------
(***************************************************************************)
(* What the interaction control plane promises to an adapter that asks a   *)
(* human a question: every request is asked once, stays open for a while   *)
(* and is then closed with one outcome that never changes again.           *)
(* InteractionGateway implements this module.                              *)
(***************************************************************************)

CONSTANTS
  Requests,   \* identifiers of interaction requests
  Outcomes    \* what an open request may be closed with

VARIABLE outcome

FDInit == outcome = [r \in Requests |-> "unasked"]

Ask(r) == outcome[r] = "unasked" /\ outcome'[r] = "open"

Close(r) == outcome[r] = "open" /\ outcome'[r] \in Outcomes

\* One transaction may move several requests at once: an expiry sweep, the
\* end of a terminal session, a save of the project state.
FDNext ==
  /\ outcome' = [r \in Requests |-> outcome'[r]]
  /\ \A r \in Requests : Ask(r) \/ Close(r) \/ outcome'[r] = outcome[r]

FDSpec == FDInit /\ [][FDNext]_outcome
============================================================================
