SPECIFICATION FairSpec
CONSTANTS
  k1 = k1  k2 = k2  k3 = k3  e1 = e1  e2 = e2  e3 = e3
  w1 = w1  w2 = w2  w3 = w3  run1 = run1  d1 = d1  d2 = d2
  c1 = c1  c2 = c2  ok = ok  busy = busy
  Works = {k1}
  Exchanges = {e1}
  Workers = {w1, w2}
  Runs = {run1}
  Digests = {d1, d2}
  Codecs = {c1, c2}
  Bodies = {ok}
  Transient = {}
  Timeout = Timeout
  Legacy = {}
  Requests <- MCOne
  None = None
PROPERTIES CallEnds
