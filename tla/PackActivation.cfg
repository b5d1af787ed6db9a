SPECIFICATION Spec
CONSTANTS
  Clients = {c1, c2}
  Stamps = {s1, s2, s3}
  Packs = {p1, p2}
  MaxRevision = 2
  None = None
  Generations = {g1}
  Loaders = {l1}
SYMMETRY Symmetry
INVARIANTS StampsHeld ActiveWhole WorkOutlivesNoStore
PROPERTIES PublishesCurrent ActiveNeverRegresses
CHECK_DEADLOCK FALSE
