CONSTANTS
  Requests <- Swallowing
  MaxFrames = 3
  MaxLost = 1
  MaxBroken = 1
SPECIFICATION Spec
INVARIANT PromptUnlessHeldBack
CHECK_DEADLOCK FALSE
