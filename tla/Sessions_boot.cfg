SPECIFICATION FairSpec
CONSTANTS
  None = None
  RetryEnabled = TRUE
  p1 = p1
  p2 = p2
  t1 = t1
  t2 = t2
  Processes = {p1, p2}
  Threads = {t1, t2}
  Home <- OneEach
  MaxTokens = 3
  MaxOutages = 1
  MaxDeaths = 1
INVARIANTS
  TrustNeedsEvidence
  SpentStaysSpent
  MigrationsTakeTurns
  WritesRunOnce
PROPERTIES
  BootEnds
