SPECIFICATION Spec
CONSTANTS
  r1 = r1
  r2 = r2
  r3 = r3
  w1 = w1
  w2 = w2
  p1 = p1
  p2 = p2
  NoRun = NoRun
  Runs = {r1, r2, r3}
  Catalogue = {p1}
  ProductOf <- OneProduct
  Workers = {w1, w2}
  QueueSize = 1
  Closers = {1}
  Faults = {"error", "lost reply"}
  HonoursContext = {}
SYMMETRY WorkerSymmetry
INVARIANTS
  Invariant
  RefusedNeverRuns
  AuditTrailMatchesOutcome
  DocumentsShowCompletedRuns
PROPERTIES
  TerminalIsFinal
  ImplementsLifecycle
