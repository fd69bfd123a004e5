SPECIFICATION Spec
CONSTANTS
  Investigators = {i1, i2}
  Supervisors = {s1}
  ComplianceOfficers = {c1}
  NoUser = NoUser
  Requests = {r1}
  Verdicts = {"REFUTED", "CONFIRMED", "INCONCLUSIVE"}
  MaxTasks = 6
  ViaUI = TRUE
  MayFail = FALSE
INVARIANTS
  TypeOK
  NoDeadEnds
  ClosedIsComplete
PROPERTIES
  ImplementsLifecycle
CHECK_DEADLOCK FALSE
