\* Three runs, and two readers of whatever there is.
SPECIFICATION Spec
CONSTANTS
  r1 = r1
  r2 = r2
  r3 = r3
  p1 = p1
  p2 = p2
  Runs = {r1, r2, r3}
  Catalogue = {p1, p2}
  ProductOf <- Requested
  NoRun = NoRun
  Readers = {rd1, rd2}
SYMMETRY Symmetry
INVARIANT OpenRowsAsCreated
PROPERTIES
  MemoryImplementsLifecycle
  NothingChangesWhileEncoded
