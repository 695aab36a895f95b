SPECIFICATION Spec
CONSTANTS
  u1 = u1 u2 = u2 a1 = a1 a2 = a2
  Units = {u1, u2}
  Editors = {a1}
  MaxTexts = 3
  MaxDisturbances = 1
  Gone = Gone Held = Held None = None
PROPERTIES LoadSyncs
CHECK_DEADLOCK FALSE
