SPECIFICATION Spec
CONSTANTS
  Producers = {p1, p2}
  Capacity = 2
  MaxEvents = 3
INVARIANTS ClaimedIsSent NothingLost
PROPERTIES ImplementsTerminalStream GoneEnds ClosedWakes
CHECK_DEADLOCK FALSE
