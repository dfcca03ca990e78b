SPECIFICATION Spec
CONSTANTS
  None = None
  b1 = b1
  b2 = b2
  t1 = t1
  t2 = t2
  r1 = r1
  r2 = r2
  d1 = d1
  Workers = {w1, w2}
  Slots = {s1, s2}
  Lectures = {l1, l2}
  Students = {p1}
  Batches = {b1, b2}
  Teachers = {t1, t2}
  Rooms = {r1, r2}
  DefaultRoom = r1
  Days = {d1}
  Times = {0, 1}
  Dates = {1, 2}
  Today = 2
  DayOf <- SameDay
  Branch <- OneBranch
  Qualified <- TwoTeachers
  Assigned <- OneAssigned
  Home <- TwoHomes
  Statuses = {present, absent}
  Scenarios <- AllScenarios
CHECK_DEADLOCK FALSE
SYMMETRY Symmetry
INVARIANTS
  TimetableIntegrity
  TeachersSeeWhatTheyDo
PROPERTIES
  AttendanceSurvives
  TeachersKeepHistory
