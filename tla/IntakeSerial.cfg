SPECIFICATION Spec
CONSTANTS
  Alerts = {a1, a2}
  NoAlert = NoAlert
  Requests = {r1}
  MaxCalls = 6
  TriageTypes = {"AI", "MANUAL", "DISABLED"}
  Answers = {"investigate", "close", "both"}
  ViaUI = TRUE
  Faults = {"amlThrows"}
INVARIANTS
  NoDeadEnds
  LeadsToAlert
  HandsOver
  SplitIsWhole
CHECK_DEADLOCK FALSE
