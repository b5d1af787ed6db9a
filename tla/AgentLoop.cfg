SPECIFICATION LoopSpec
CONSTANTS
  MaxTurns = 2
  MaxQueued = 3
  MaxResponses = 2
  MaxCalls = 2
INVARIANTS CallsAnswered DeliveredOnce BoundariesKept SteeringFirst SteeredOutcome
PROPERTIES AbortStops
CHECK_DEADLOCK FALSE
