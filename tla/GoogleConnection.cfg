SPECIFICATION Spec
CONSTANTS
  Accounts = {a1, a2}
  None = None
  Kinds = {"scan"}
  Calls = {c1}
  Workers = {w1, w2}
  MaxIds = 3
  MaxReceives = 2
  MaxLosses = 1
CHECK_DEADLOCK FALSE
INVARIANTS TypeOK SetupIsCarried RevocationIsCarried
PROPERTIES OvertakenWorkLoses CalendarOfLiveMailbox
