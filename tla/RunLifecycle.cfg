SPECIFICATION Spec
CONSTANTS
  r1 = r1
  r2 = r2
  Runs = {r1, r2}
  Attempt <- Numbered
  Outputs = {good, bad}
  Valid = {good}
  None = None
  Indexed = TRUE
  MaxExec <- Repeated
  MaxKills = 1
INVARIANTS
  TypeOK
  PromotedIsValidated
  CompletedIsCanonical
  TraceAgreesWithOutcome
  RowAgreesWithTrace
PROPERTIES
  TerminalRowsStay
