SPECIFICATION Spec
CONSTANTS
  None = None
  Ids = {s1, s2}
  Groups = {g1, g2}
  Keys = {k1}
  Calls = {c1}
  Workers = {w1, w2}
  MaxVersion = 2
  MaxDecisions = 3
  MaxRoutines = 2
SYMMETRY Symmetry
CHECK_DEADLOCK FALSE
INVARIANTS TypeOK OneCasePerSuggestion PreparedIsCarried
PROPERTIES RefreshRespectsUser RoutineStaysInBounds
