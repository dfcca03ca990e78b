SPECIFICATION Spec
CONSTANTS
  None = None
  c1 = c1
  c2 = c2
  s1 = s1
  s2 = s2
  b1 = b1
  k1 = k1
  k2 = k2
  t1 = t1
  t2 = t2
  d1 = d1
  d2 = d2
  i1 = i1
  i2 = i2
  std = std
  revised = revised
  Workers = {w1, w2}
  Courses = {c1, c2}
  Subjects = {s1, s2}
  Batches = {b1}
  Materials = {m1}
  Codes = {k1, k2}
  Documents = {d1, d2}
  Titles = {t1, t2}
  Policies <- MCPolicies
  Texts = {std, revised}
  Standard = std
  Payloads <- MCPayloads
  Jobs = {i1, i2}
  Scenarios <- MCScenarios
CHECK_DEADLOCK FALSE
SYMMETRY Symmetry
INVARIANTS
  KnowledgeIntegrity
  AnswersAreCurrent
  CompletedIngests
PROPERTIES
  RetiredUnused
