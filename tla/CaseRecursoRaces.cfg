SPECIFICATION Spec
CONSTANTS
  Handlers = {h1, h2}
  Operations <- RecursoOperations
  LastDay = 2
  Weekends <- NoDays
  Severities = {"MINOR"}
  DirectSeverities = {"MINOR"}
  InvestigationDays = 1
  DefenseDays = 1
  ResolutionDays = 1
  RevocationDays = 1
  AppealDays = 1
SYMMETRY Interchangeable
INVARIANTS StageIsBacked AnsweredByTheInFlight
CHECK_DEADLOCK FALSE
