---------------------------- MODULE MCTaskBoard ----------------------------
(***************************************************************************)
(* Small instances of TaskBoard: the runbook of a code change without its  *)
(* longest stretch, a tool that is retried, a tool that chains, an agent.  *)
(***************************************************************************)
EXTENDS TaskBoard

Phase(p, kind, state) == [phase |-> p, kind |-> kind, state |-> state]
Tool(id, kind, phases, retries, agent) ==
  [id |-> id, kind |-> kind, phases |-> phases, retries |-> retries, agent |-> agent]

ShortRunbook ==
  <<Phase("test", "test_result", "running"),
    Phase("fix_or_replan", "diff_summary", "running"),
    Phase("final_validation", "completion_check", "running")>>

UsualTools ==
  <<Tool("go_test", "test_result", {"test", "final_validation"}, 1, FALSE),
    Tool("validator", "completion_check", {"final_validation"}, 0, TRUE)>>

Setting(gateway, managed, origin) ==
  [gateway |-> gateway, managed |-> managed, origin |-> origin]

Everywhere == {Setting(TRUE, TRUE, "human"), Setting(FALSE, FALSE, "agent")}
WithGateway == {Setting(TRUE, FALSE, "human")}
=============================================================================
