CONSTANTS
  j1 = j1
  j2 = j2
  p1 = p1
  p2 = p2
  p3 = p3
  Jobs = {j1, j2}
  Scenes = {1}
  Prompts = {p1, p2, p3}
  NoJob = NoJob
  NoPrompt = NoPrompt
  MaxAttempts = 1
  MaxFaults = 2
  ReviewFirst = TRUE
  AllowRestart = TRUE
SPECIFICATION Spec
SYMMETRY IdSymmetry
VIEW RelevantView
INVARIANTS OwnerNotCancelled NoJobLost QuietAfterCancel
PROPERTIES NoLateWork
CHECK_DEADLOCK FALSE
