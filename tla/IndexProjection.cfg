SPECIFICATION FairSpec
CONSTANTS
  s = s
  a = a
  b = b
  c = c
  d = d
  v = v
  Runs = {a, b, c, d, s, v}
  Role <- Cast
  Numbers <- Numbered
  None = None
  Scenes <- Workflow
  Repeated = {b}
  Cut = {v}
  Watched = {s, b, v}
INVARIANTS
  TypeOK
  RowsAreRecorded
  RecordsAreClosed
  StatusIsShown

  
