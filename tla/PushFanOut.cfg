SPECIFICATION Spec
CONSTANTS
  Users = {alice, bob}
  Devices = {phone, tablet}
  Tokens = {t1, t2}
  None = None
  Calls = {c1}
  MaxDevices = 2
  MaxTries = 1
  MaxCalls = 2
  Owner = alice
  Dispatchers = {x1, x2}
  MaxWakes = 2
  MaxReceives = 1
  MaxCrashes = 0
CHECK_DEADLOCK FALSE
INVARIANTS OutcomeIsHonest
PROPERTIES PermitIsCurrent
