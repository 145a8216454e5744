SPECIFICATION Spec
CONSTANTS
  p1 = p1
  p2 = p2
  Papers = {p1, p2}
  CandidateSets <- OneSearch
  Scopes = {s1}
  Prefixes = {x, y}
  Sizes = {1, 2}
  MaxBatches = 2
  None = None
  MaxRunning = 1
INVARIANTS
  OneDecisionEach
