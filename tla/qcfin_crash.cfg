CONSTANTS
  p1 = p1
  p2 = p2
  p3 = p3
  Scenes = {1, 2}
  Drafted = {}
  Repaired = {2}
  Prompts = {p1, p2, p3}
  NoPrompt = NoPrompt
  DeliveryOn = TRUE
  ComfyTrouble = FALSE
  MayToggle = TRUE
  MaxFaults = 2
SPECIFICATION Spec
SYMMETRY PromptSymmetry
INVARIANTS PostsConsistent OneLateDelivery MailedAtMostOnce
PROPERTIES ConfirmedStands
CHECK_DEADLOCK FALSE
