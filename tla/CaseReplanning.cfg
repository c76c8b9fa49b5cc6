SPECIFICATION Spec
CONSTANTS
  Workers = {w1}
  NoWorker = NoWorker
  MaxPlans = 2
  MaxVersion = 7
  MaxEvidence = 1
  MaxEpochs = 2
  MaxSends = 2
  MaxReceives = 1
  Happenings = {"disconnect", "reconnect", "loss"}
CHECK_DEADLOCK FALSE
INVARIANTS AtMostOneEvent ExecutionPinsPlan
PROPERTIES ClaimIsAuthorized
