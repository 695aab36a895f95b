SPECIFICATION Spec
CONSTANTS
  c1 = c1 c2 = c2 t1 = t1 t2 = t2 t3 = t3 r1 = r1 r2 = r2
  Changes = {c1}
  Callers = {r1, r2}
  Beat = Beat
  Tasks = {t1, t2}
  MaxRetries = 1
  MaxDisturbances = 0
  None = None
INVARIANTS AskedIsScheduled
