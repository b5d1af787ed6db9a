CONSTANTS
    Edits = {e}
    Revisions = {r}
    Writes = {w}
    None = None
    MaxForeign = 1
SPECIFICATION Spec
INVARIANTS DurableAndWhole PublishesUnderLease
PROPERTIES NoLostUpdate
CHECK_DEADLOCK FALSE
