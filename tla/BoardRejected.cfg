\* Work that was rejected cannot start a phase again.
CONSTANTS
  Runbook <- ShortRunbook
  Tools <- UsualTools
  Rules = {"test_result", "completion_check"}
  Strict = {"test_result", "review_result", "completion_check"}
  Settings <- WithGateway
  Updates = {"mark_execution_complete", "request_acceptance_review", "reopen_task"}
  AgentPhases = {"final_validation"}
  RunIds = {1, 2}
  MaxQuestions = 1
  MaxDecisions = 1
SPECIFICATION Spec
INVARIANT RejectedCanBeRevised
CHECK_DEADLOCK FALSE
