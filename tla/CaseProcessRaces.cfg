SPECIFICATION Spec
CONSTANTS
  Handlers = {h1, h2}
  Operations <- ProcessOperations
  LastDay = 2
  Weekends <- NoDays
  Severities = {"SERIOUS"}
  DirectSeverities = {}
  InvestigationDays = 1
  DefenseDays = 1
  ResolutionDays = 1
  RevocationDays = 1
  AppealDays = 1
SYMMETRY Interchangeable
INVARIANTS LogExplainsStatus DueProcess Heard
CHECK_DEADLOCK FALSE
