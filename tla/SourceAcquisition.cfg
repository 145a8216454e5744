SPECIFICATION FairSpec
CONSTANTS
  Papers = {"a", "b"}
  Workshop = {"w"}
  Single = {"s", "l"}
  Local = {"l"}
  Time <- Times
  Bodies <- Answers
  Readable = {"page", "print", "summary"}
  Plan <- PlanOf
  MaxConcurrent = 2
  None = None
  MaxCommands = 2
  MaxKills = 1
CHECK_DEADLOCK FALSE
INVARIANTS
  TypeOK
  PacketsAreBacked
  FallbackIsExplained
  ReportsAreTrue
PROPERTIES
  CommandsEnd
