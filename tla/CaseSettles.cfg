SPECIFICATION FairSpec
CONSTANTS
  Workers = {w1}
  NoWorker = NoWorker
  MaxPlans = 2
  MaxVersion = 5
  MaxEvidence = 2
  MaxEpochs = 1
  MaxSends = 2
  MaxReceives = 2
  Happenings = {"disconnect"}
CHECK_DEADLOCK FALSE
PROPERTIES ExecutionSettles PlanArrives
