SPECIFICATION Spec
CONSTANTS
  None = None
  w1 = w1
  w2 = w2
  l1 = l1
  l2 = l2
  s1 = s1
  s2 = s2
  p1 = p1
  p2 = p2
  Workers = {w1, w2}
  Leads = {l1, l2}
  Students = {s1, s2}
  Payments = {p1, p2}
  Fees = {200}
  EditedAmounts = {50}
  MaxInstallments = 3
  Scenarios <- MCScenarios
CHECK_DEADLOCK FALSE
SYMMETRY Symmetry
INVARIANTS
  AdmissionsIntegrity
  ScheduleCoversFee
  PaymentHolds
  MailedWorkStands
  DashboardTellsAdmissions
