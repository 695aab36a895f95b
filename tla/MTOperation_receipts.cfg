SPECIFICATION Spec
CONSTANTS
  u1 = u1 u2 = u2 o1 = o1 o2 = o2 w1 = w1 w2 = w2
  Units = {u1, u2}
  Operations = {o1, o2}
  Batches <- MCSeveral
  Delegated = {o1, o2}
  Workers = {w1}
  ChunkSize = 2
  MaxDispatchAttempts = 1
  MaxMessages = 1
  MaxEdits = 1
  MaxDisturbances = 2
  Answers = {"good"}
  None = None
SYMMETRY MCSymmetry
CHECK_DEADLOCK FALSE
INVARIANTS PaidOncePerRevision UnsentIsProvable CompletedIsCovered
