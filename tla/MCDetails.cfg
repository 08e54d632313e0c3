SPECIFICATION Spec
CONSTANTS
  Products = {p1, p2}
  NRuns = 2
  NVersions = 2
  Limit = 1
SYMMETRY Alike
INVARIANT ListIsAccountedFor
PROPERTIES RowsMoveForward ClosedRunsAreQuiet
