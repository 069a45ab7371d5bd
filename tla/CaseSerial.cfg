SPECIFICATION Spec
CONSTANTS
  Handlers = {h1}
  Operations <- SerialOperations
  LastDay = 3
  Weekends <- Weekend
  Severities = {"MINOR", "SERIOUS"}
  DirectSeverities = {"MINOR"}
  InvestigationDays = 1
  DefenseDays = 1
  ResolutionDays = 1
  RevocationDays = 1
  AppealDays = 1
INVARIANTS TypeOK RecursosInOrder NoticeIsReal CenterAgrees
PROPERTIES NothingExpiresEarly KeepsPromise
CHECK_DEADLOCK FALSE
