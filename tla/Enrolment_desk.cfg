SPECIFICATION Spec
CONSTANTS
  s1 = s1
  s2 = s2
  c1 = c1
  c2 = c2
  b1 = b1
  b2 = b2
  br1 = br1
  br2 = br2
  None = None
  Closed = Closed
  Workers = {w1, w2}
  Students = {s1, s2}
  Leads = {}
  Courses = {c1}
  Branches = {br1}
  Batches = {b1, b2}
  Capacities = {1, 2}
  Operations <- DeskOps
  Catalogue <- OneSeatEach
  StudentBranch <- AllAssigned
SYMMETRY WorkerSymmetry
INVARIANTS
  CapacityRespected
PROPERTIES
  ImplementsLedger
