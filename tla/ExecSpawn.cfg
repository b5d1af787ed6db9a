SPECIFICATION FairSpec
CONSTANTS Calls = {c1, c2} None = None MaxFailures = 1
INVARIANTS ChildOwned AnswerTrue
PROPERTIES LeaseFreed CallEnds
CHECK_DEADLOCK FALSE
