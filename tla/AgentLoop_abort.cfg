SPECIFICATION LoopSpec
CONSTANTS
  MaxTurns = 1
  MaxQueued = 1
  MaxResponses = 2
  MaxCalls = 2

PROPERTY AbortedOutcome
CHECK_DEADLOCK FALSE
