SPECIFICATION Spec
CONSTANTS
  Alerts = {a1}
  NoAlert = NoAlert
  Requests = {r1, r2}
  MaxCalls = 3
  TriageTypes = {"AI", "MANUAL", "DISABLED"}
  Answers = {"investigate", "close", "both"}
  ViaUI = TRUE
  Faults = {}
INVARIANTS
  FiledOnce
CHECK_DEADLOCK FALSE
