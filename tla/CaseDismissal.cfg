SPECIFICATION Spec
CONSTANTS
  Handlers = {h1}
  Operations <- SerialOperations
  LastDay = 2
  Weekends <- NoDays
  Severities = {"MINOR", "SERIOUS"}
  DirectSeverities = {"MINOR"}
  InvestigationDays = 1
  DefenseDays = 1
  ResolutionDays = 1
  RevocationDays = 1
  AppealDays = 1
INVARIANT DismissedTakesNoPoints
CHECK_DEADLOCK FALSE
