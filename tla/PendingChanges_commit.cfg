SPECIFICATION Spec
CONSTANTS
  u1 = u1 u2 = u2 a1 = a1 a2 = a2
  Units = {u1, u2}
  Editors = {a1, a2}
  MaxTexts = 3
  MaxDisturbances = 3
  Gone = Gone Held = Held None = None
SYMMETRY MCSymmetry
INVARIANTS TypeOK ComparisonIsFile OrderKept FileIsFiltered
PROPERTIES PendingSurvives
CHECK_DEADLOCK FALSE
