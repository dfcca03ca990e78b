SPECIFICATION Spec
CONSTANTS
  None = None
  w1 = w1
  w2 = w2
  s1 = s1
  s2 = s2
  a1 = a1
  a2 = a2
  x1 = x1
  x2 = x2
  l1 = l1
  l2 = l2
  f1 = f1
  f2 = f2
  Workers = {w1, w2}
  Students = {s1, s2}
  Assignments = {a1, a2}
  Exams = {x1, x2}
  Lectures = {l1, l2}
  Files = {f1, f2}
  Marks = {30, 40}
  Totals = {0, 50}
  Scale = 50
  Passing = {40}
  Month <- MCMonth
  Scenarios <- MCScenarios
CHECK_DEADLOCK FALSE
SYMMETRY Symmetry
INVARIANTS
  CourseworkIntegrity
  ReportsAgree
