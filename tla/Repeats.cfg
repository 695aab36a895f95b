SPECIFICATION Spec
CONSTANTS
  u1 = u1 u2 = u2 w1 = w1 w2 = w2 n1 = n1
  Groups = {1, 2}
  Units = {u1, u2}
  GroupOf <- MCGroupOf
  Workers = {w1, w2}
  Runs = {1, 2}
  Ordinals = {1, 2}
  Reviews = {n1}
  MaxMessages = 2
  MaxTasks = 2
  Allowances <- MCAllowances
  None = None
SYMMETRY MCWorkerSymmetry
CHECK_DEADLOCK FALSE
INVARIANTS TypeOK NeverRepurchased RunsSettle
PROPERTIES ReviewedTextOnly SettledItemsStay UndoKeepsLaterWork UndoneBatchStops
