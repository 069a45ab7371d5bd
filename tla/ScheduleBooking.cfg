SPECIFICATION Spec
CONSTANTS
  a1 = a1  a2 = a2  t1 = t1  g1 = g1  g2 = g2
  north = north  south = south  maths = maths  art = art  s1 = s1  s2 = s2  s3 = s3
  None = None  Unborn = Unborn  Removed = Removed
  Handlers = {h1, h2}
  Assignments = {a1, a2}
  Slots = {s1, s2}
  Days = {1}
  Dates = {d1}
  Shapes <- AllShapes
  Seed <- SeedSlots
  TeacherOf <- OneTeacher
  GroupOf <- TwoGroups
  OfferingOf <- TwoOfferings
  SectionOf <- OneSection
  MaxEntry = 2
INVARIANTS TypeOK SharedRowsSerialise ActiveSlotsDisjoint
PROPERTIES BookedSlotsKept SeenOccurrencesKept
SYMMETRY Interchangeable
