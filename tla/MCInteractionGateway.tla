------------------------ MODULE MCInteractionGateway ------------------------
(***************************************************************************)
(* A small instance of InteractionGateway: two request ids and four calls, *)
(* chosen so that expiry, duplicates, risk, relabelling and automatic      *)
(* approval all happen.                                                    *)
(***************************************************************************)
EXTENDS InteractionGateway, TLC

CONSTANTS r1, r2

Ask(v, s, k, h, a, c, e) ==
  [vendor |-> v, session |-> s, kind |-> k, high |-> h, allowed |-> a,
   content |-> c, expiry |-> e]

\* A command that expires, asked again with other input and at a risk that
\* forbids approval for the session; an acceptance question an adapter asks
\* with a session-wide approval; and the dispatch gate of a human's task.
Command == Ask("v1", "s1", "command", FALSE, {"approve", "reject"}, "in1", 1)
Changed == Ask("v1", "s1", "command", TRUE, {"approve_session", "reject"}, "in2", 1)
Accept  == Ask("v2", "s2", "final_acceptance", FALSE, {"approve_session", "answer"}, "in1", Never)
HumanGate == Ask("v4", "s2", "human_dispatch", FALSE, {"approve", "reject"}, "in1", 1)

Review == Ask("checkpoint", "project-control", "final_acceptance", FALSE,
              {"approve", "reject"}, "in2", Never)

AskProposals == {Command, Changed, Accept, HumanGate}
ReviewGates == {Review}
=============================================================================
