SPECIFICATION PushSpec
SYMMETRY Symmetry
CONSTANTS
  Users = {alice, bob}
  Devices = {phone, tablet}
  Tokens = {t1, t2}
  None = None
  Calls = {c1, c2}
  MaxDevices = 1
  MaxTries = 2
  MaxCalls = 3
CHECK_DEADLOCK FALSE
PROPERTIES RevocationWins
