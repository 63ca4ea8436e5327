CONSTANTS
  p1 = p1
  p2 = p2
  p3 = p3
  Scenes = {1, 2}
  Drafted = {2}
  Repaired = {1}
  Prompts = {p1, p2, p3}
  NoPrompt = NoPrompt
  DeliveryOn = TRUE
  ComfyTrouble = TRUE
  MayToggle = FALSE
  MaxFaults = 2
SPECIFICATION FairSpec
INVARIANTS PlanTruthful
PROPERTIES EffectsInOrder FinalizationSettles
CHECK_DEADLOCK FALSE
