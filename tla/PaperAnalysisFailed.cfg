SPECIFICATION Spec
CONSTANTS
  Papers = {p1}
  Sources = {s1}
  ReadRuns = {a1}
  CritRuns = {c1}
  ReviewRuns = {v1}
  None = None
  MaxKills = 1
INVARIANTS
  FailedPaperHasNoCritic
