SPECIFICATION FairSpec
CONSTANTS
  Workers = {w1, w2}
  MaxSends = 3
  MaxReceives = 3
  MaxFailures = 3
CHECK_DEADLOCK FALSE
INVARIANTS TypeOK OneProcessor
PROPERTIES NotAgain EventServed
