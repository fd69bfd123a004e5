SPECIFICATION Spec
CONSTANTS
  Investigators = {i1}
  Supervisors = {s1}
  ComplianceOfficers = {}
  NoUser = NoUser
  Requests = {r1, r2}
  Verdicts = {"REFUTED", "CONFIRMED"}
  MaxTasks = 2
  ViaUI = TRUE
  MayFail = FALSE
SYMMETRY RequestSymmetry
INVARIANTS
  OutcomeRecorded
  HeldTasksHaveHolder
  ReopeningHasApproval
PROPERTIES
  ClosesBySupervisor
  ReopenedOffersWork
CHECK_DEADLOCK FALSE
