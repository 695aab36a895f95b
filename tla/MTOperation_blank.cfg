SPECIFICATION Spec
CONSTANTS
  u1 = u1 u2 = u2 o1 = o1 o2 = o2 w1 = w1 w2 = w2
  Units = {u1}
  Operations = {o1}
  Batches <- MCSingle
  Delegated = {}
  Workers = {w1, w2}
  ChunkSize = 1
  MaxDispatchAttempts = 2
  MaxMessages = 2
  MaxEdits = 1
  MaxDisturbances = 2
  Answers = {"good", ""}
  None = None
CHECK_DEADLOCK FALSE
INVARIANTS PaidOncePerRevision
