SPECIFICATION FairSpec
CONSTANTS
  Papers = {p1, p2}
  Sources = {s1, s2}
  ReadRuns = {a1}
  CritRuns = {c1, c2}
  ReviewRuns = {v1}
  None = None
  MaxKills = 1
INVARIANTS
  TypeOK
  ChainAgrees
  TerminalIsSupported
  ReviewIsCurrent
PROPERTIES
  ImplementsGate
  CompletedIsTerminal
