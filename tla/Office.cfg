SPECIFICATION Spec
CONSTANTS
  None = None
  i1 = i1  i2 = i2  ip = ip
  Handlers = {h1, h2}
  MaxPasswords = 3
  MaxSessions = 1
  MaxResets = 2
  MaxAttempts = 1
  Cooldown = 1
  Ttl = 1
  Hour = 2
  MaxPerHour = 1
  LastMinute = 2
  MaxCodes = 3
  Identifiers = {i1, i2}
  Address = ip
  MaxPer <- LoginMaxima
  Window = 2
  PruneAt = 2
  LastInstant = 4
  MaxFailures = 3
  Readers = {r1}
  Aims = {"Padre"}
  Managers = {r1}
  LastMoment = 1
  Tutors = {t1, t2}
  LastYear = 2
  MaxFiles = 2
  MaxNotices = 2
  MaxEntries = 3
  LastReview = 1
  MaxFollowUps = 2
  MaxEvidence = 1
  MaxDefenseFiles = 2
  LastMs = 1
  MaxNames = 2
  MaxRows = 2
  MaxStarts = 3
  MaxEdits = 1
  Enrollments <- Terms
  Reporters = {"g1", "teacher"}
  Thresholds <- AlertLimits
  Severities = {"MINOR", "EXTREMELY_SERIOUS"}
  MaxRecords = 2
  Sheets <- Files
  Newcomers <- ByHand
  Offers <- Offered
  MaxPeople = 2
INVARIANTS OfficeTypeOK RecordsAlone EndedForGood
INVARIANTS MailedSecrets LoginsLimited ImportsExplained
INVARIANTS CasesOnRecord ConductOnRecord DeskLimits FilesExplained RolesKept
PROPERTY ReceiptsKept
SYMMETRY Interchangeable
CHECK_DEADLOCK FALSE
