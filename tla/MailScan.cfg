SPECIFICATION Spec
CONSTANTS
  None = None
  Calls = {c1}
  Workers = {w1, w2}
  MaxPages = 2
  MaxRecent = 1
  MaxMails = 2
  MaxScans = 1
  MaxEdits = 2
  MaxEpochs = 1
  MaxQueued = 1
  MaxReceives = 2
  MaxLosses = 1
  MaxEvents = 3
SYMMETRY Symmetry
CHECK_DEADLOCK FALSE
INVARIANTS TypeOK  WaitingIsCarried
PROPERTIES StoredForCurrentProfile PublishedIsCurrent
