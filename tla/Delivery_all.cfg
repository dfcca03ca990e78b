SPECIFICATION FairSpec
CONSTANTS
  None = None
  d1 = d1
  u1 = u1
  u2 = u2
  u3 = u3
  n1 = n1
  Tasks = {t1, t2}
  Web = {p1, p2}
  Deliveries = {d1}
  Users = {u1, u2, u3}
  Recipient <- OneRecipient
  Phone <- OneNumber
  OptedIn = {u1}
  Messages = {m1, m2}
  Answers = {TRUE, FALSE}
  MaxRetries = 1
  MaxClicks = 1
INVARIANTS
  StatusIsBacked
  NothingForgotten
  PreviewTellsVerdict
PROPERTIES
  StopStaysQuiet
  DeliveriesResolve
