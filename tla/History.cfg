CONSTANTS
  Places <- ThreePlaces
  Ids <- TwoIds
  plan = plan
  test = test
  Kinds = {plan, test}
  RetainedTaskEvents = 1
  RetainedTaskPhaseAttempts = 1
  RetainedTaskToolRuns = 1
  RetainedTaskArtifacts = 1
  PageLimit = 1
SYMMETRY Symmetry
SPECIFICATION Spec
INVARIANTS TypeOK NothingUncounted EvidenceKept PagesMeet
