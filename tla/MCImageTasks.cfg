SPECIFICATION Spec
CONSTANTS
  k1 = k1
  k2 = k2
  p1 = p1
  p2 = p2
  j1 = j1
  j2 = j2
  j3 = j3
  Key <- MCKey
  Prompt <- MCPrompt1
  Job <- MCJob
  Workers = 2
  MaxRestarts = 1
  UpdateSaveFails = TRUE
  SubmitSaveFails = FALSE
SYMMETRY
  MCSymmetry
INVARIANTS
  OneWorker
  UnfinishedHasWorker
PROPERTIES
  SuccessIsFinal
  ResumableSurvivesRestart
CHECK_DEADLOCK FALSE
