CONSTANTS
  j1 = j1
  p1 = p1
  p2 = p2
  Jobs = {j1}
  Scenes = {1}
  Prompts = {p1, p2}
  NoJob = NoJob
  NoPrompt = NoPrompt
  MaxAttempts = 2
  MaxFaults = 1
  ReviewFirst = FALSE
  AllowRestart = TRUE
SPECIFICATION FairSpec
PROPERTIES RenderSettles
CHECK_DEADLOCK FALSE
