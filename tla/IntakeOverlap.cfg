SPECIFICATION FairSpec
CONSTANTS
  Alerts = {a1}
  NoAlert = NoAlert
  Requests = {r1, r2}
  MaxCalls = 4
  TriageTypes = {"AI", "MANUAL", "DISABLED"}
  Answers = {"investigate", "close", "both"}
  ViaUI = FALSE
  Faults = {"lost", "expires"}
INVARIANTS
  AlertKeepsCase
PROPERTIES
  
  EveryRequestEnds
CHECK_DEADLOCK FALSE
