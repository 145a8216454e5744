SPECIFICATION FairSpec
CONSTANTS
  Papers = {1, 2}
  Criteria = {"gate", "merit"}
  Weight <- ObjectiveWeights
  Gates = {"gate"}
  Scores = {0, 1}
  Places = 1
  TiesUp = {}
  ReviewRuns = {v1}
  Challenges = {h1}
  Renderers = {x1}
  None = None
  MaxKills = 1
CHECK_DEADLOCK FALSE
PROPERTIES
  ReviewIsRendered
