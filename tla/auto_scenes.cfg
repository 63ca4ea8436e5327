CONSTANTS
  j1 = j1
  p1 = p1
  p2 = p2
  p3 = p3
  Jobs = {j1}
  Scenes = {1, 2}
  Prompts = {p1, p2, p3}
  NoJob = NoJob
  NoPrompt = NoPrompt
  MaxAttempts = 2
  MaxFaults = 1
  ReviewFirst = FALSE
  AllowRestart = TRUE
SPECIFICATION Spec
SYMMETRY IdSymmetry
VIEW RelevantView
INVARIANTS TypeOK ScenesConsistent RendersBounded
PROPERTIES WorkInOrder
CHECK_DEADLOCK FALSE
