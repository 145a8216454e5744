SPECIFICATION Spec
CONSTANTS
  Writers = {w1, w2}
  Paths = {p1, p2}
  Contents = {a, b}
  Absent = Absent
  Torn = Torn
  p1 = p1
  p2 = p2
  run = run
  parsed = parsed
  Dirs = {run, parsed}
  Dir <- Directory
  Within <- Nested
INVARIANTS
  TypeOK
  NeverTorn
PROPERTIES
  CreatedIsDurable
  ImplementsWriteOnce
