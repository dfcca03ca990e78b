SPECIFICATION FairSpec
CONSTANTS
  s1 = s1
  s2 = s2
  c1 = c1
  c2 = c2
  b1 = b1
  b2 = b2
  br1 = br1
  br2 = br2
  None = None
  Closed = Closed
  Workers = {w1, w2}
  Students = {s1}
  Leads = {}
  Courses = {c1, c2}
  Branches = {br1, br2}
  Batches = {b1, b2}
  Capacities = {1, 2}
  Operations <- PointerOps
  Catalogue <- MixedCatalogue
  StudentBranch <- SomeAssigned
INVARIANTS
  SeatMatchesBatch
  ProfileNamesEnrolment
PROPERTIES
  RequestsEnd
