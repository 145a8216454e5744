SPECIFICATION FairSpec
CONSTANTS
  r1 = r1
  r2 = r2
  Runs = {r1, r2}
  Attempt <- Unnumbered
  Outputs = {good, bad}
  Valid = {good}
  None = None
  Indexed = TRUE
  MaxExec <- Once
  MaxKills = 1
PROPERTIES
  EveryRunSettles
  CompletionIsRecorded
  FollowsRunStates
