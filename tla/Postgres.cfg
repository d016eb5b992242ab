SPECIFICATION FairSpec
CONSTANTS
  r1 = r1
  r2 = r2
  r3 = r3
  p1 = p1
  p2 = p2
  NoRun = NoRun
  Runs = {r1, r2, r3}
  Catalogue = {p1, p2}
  ProductOf <- Requested
  ClaimCount <- Found
  Connections = {1, 2}
INVARIANTS
  Invariant
  ClaimsMatchDocument
PROPERTIES
  ClosedRunsKeepResult
  ImplementsLifecycle
  TransactionsEnd
