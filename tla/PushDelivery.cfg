SPECIFICATION FairSpec
CONSTANTS
  Users = {alice}
  Devices = {phone}
  Tokens = {t1}
  None = None
  Calls = {c1}
  MaxDevices = 1
  MaxTries = 1
  MaxCalls = 1
  Owner = alice
  Dispatchers = {x1, x2}
  MaxWakes = 2
  MaxReceives = 3
  MaxCrashes = 2
CHECK_DEADLOCK FALSE
INVARIANTS TypeOK OneSendPerDevice
PROPERTIES OutcomeIsFinal EventFinishes
