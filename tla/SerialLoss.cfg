SPECIFICATION Spec
CONSTANTS
  Investigators = {i1}
  Supervisors = {s1}
  ComplianceOfficers = {c1}
  NoUser = NoUser
  Requests = {r1}
  Verdicts = {"REFUTED", "CONFIRMED"}
  MaxTasks = 2
  ViaUI = FALSE
  MayFail = TRUE
INVARIANTS
  ClosedAsDecided
PROPERTIES
  KeepsOwner
CHECK_DEADLOCK FALSE
