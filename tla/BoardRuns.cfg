\* A task through its runbook, with tools, agents, humans and the projector.
CONSTANTS
  Runbook <- ShortRunbook
  Tools <- UsualTools
  Rules = {"diff_summary", "completion_check"}
  Strict = {"test_result", "review_result", "completion_check"}
  Settings <- Everywhere
  Updates = {"mark_execution_complete", "request_acceptance_review", "reopen_task",
             "edit_contract", "request_archive_override"}
  AgentPhases = {"final_validation"}
  RunIds = {1, 2}
  MaxQuestions = 1
  MaxDecisions = 1
SPECIFICATION Spec
INVARIANTS TypeOK EvidenceBacksReview ReviewIsAsked
PROPERTY OneVerdictPerAnswer
CHECK_DEADLOCK FALSE
