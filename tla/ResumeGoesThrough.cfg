SPECIFICATION Spec
CONSTANTS
  Investigators = {i1}
  Supervisors = {s1}
  ComplianceOfficers = {c1}
  Users = {i1, s1, c1}
  Nobody = Nobody
  Verdicts = {"REFUTED", "CONFIRMED"}
  MaxProcs = 2
  MaxLoose = 1
  MaxFaults = 0
INVARIANTS
  ResumeGoesThrough
CHECK_DEADLOCK FALSE
