SPECIFICATION FairServiceSpec
CONSTANTS
  r1 = r1
  r2 = r2
  p1 = p1
  NoRun = NoRun
  Runs = {r1, r2}
  Catalogue = {p1}
  ProductOf <- TwoRuns
  Workers = {1}
  QueueSize = 1
  Closers = {1}
  HonoursContext = {"GetProduct", "CompleteWorkflow", "FailWorkflow"}
  Faults = {}
  MaxRestarts = 2
INVARIANTS
  CleanExitLeavesNoOpenRun
PROPERTIES
  SignalEndsProcess
  RestartsKeepLifecycle
\* The process may be gone for good.
CHECK_DEADLOCK FALSE
