SPECIFICATION Spec
CONSTANTS
  p1 = p1
  p2 = p2
  Papers = {p1, p2}
  CandidateSets <- Searches
  Scopes = {s1, s2}
  Prefixes = {x, y}
  Sizes = {1, 2}
  MaxBatches = 2
  None = None
  MaxRunning = 2
SYMMETRY Interchangeable
INVARIANTS
  TypeOK
  PrefixIsOnePartition
  CorpusIsScreened
PROPERTY ImplementsGate
