SPECIFICATION Spec
CONSTANTS
  r1 = r1
  r2 = r2
  r3 = r3
  w1 = w1
  w2 = w2
  p1 = p1
  p2 = p2
  NoRun = NoRun
  Runs = {r1, r2}
  Catalogue = {p1}
  ProductOf <- TwoRuns
  Workers = {w1}
  QueueSize = 1
  Closers = {1}
  Faults = {}
  HonoursContext = {}
INVARIANTS
  FailureNamesStep
