SPECIFICATION Spec
SYMMETRY Symmetry
CONSTANTS
  Workers = {w1, w2}
  NoWorker = NoWorker
  MaxPlans = 1
  MaxVersion = 6
  MaxEvidence = 1
  MaxEpochs = 1
  MaxSends = 2
  MaxReceives = 2
  Happenings = {"crash", "timeout", "edit", "loss", "expiry"}
CHECK_DEADLOCK FALSE
INVARIANTS TypeOK CompletedIsVerified OneLiveClaim
PROPERTIES UserDecisionWins KeepsPromise
