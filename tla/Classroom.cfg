SPECIFICATION Spec
CONSTANTS
  None = None
  u1 = u1  u2 = u2  l1 = l1  l2 = l2  n1 = n1  g1 = g1  g2 = g2  p1 = p1
  Handlers = {h1, h2}
  Students = {u1, u2}
  Newcomers = {n1}
  Groups = {g1, g2}
  PeriodOf <- OnePeriod
  Capacity <- OneSeat
  LastDate = 2
  MaxRows = 2
  Pupils = {s1}
  Listable = {"PRESENT", "ABSENT", "JUSTIFIED"}
  MaxJustifications = 2
  Leavers = {l1, l2}
  Companions = {c1}
  LastGateDay = 2
  MaxPermits = 1
  MaxDepartures = 2
  Lessons <- FiveLessons
  Rosters <- TwoRosters
  Queries <- ThreeQueries
  LastLesson = 4
  MonthDays = 2
  PeriodDays = 2
  WindowDays = 2
  MonthHigh = 2
  MonthMedium = 1
  PercentMin = 75
  RunHigh = 2
  PeriodHigh = 3
  CriticalRate = 20
  CriticalAbsences = 2
INVARIANTS ClassroomTypeOK SeatsKept ApprovedStays AlertColumnsAgree AlertsAlone
PROPERTIES MarkedWhileOpen GateKept FiguresKept
SYMMETRY Interchangeable
CHECK_DEADLOCK FALSE
