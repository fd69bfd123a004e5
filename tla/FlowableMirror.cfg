SPECIFICATION Spec
CONSTANTS
  Investigators = {i1}
  Supervisors = {s1}
  ComplianceOfficers = {c1}
  Users = {i1, s1, c1}
  Nobody = Nobody
  Verdicts = {"REFUTED", "CONFIRMED"}
  MaxProcs = 2
  MaxLoose = 1
  MaxFaults = 1
INVARIANTS
  WorkIsMirrored
  NoForeignClaim
  FinishedIsEnded
  AcceptedInTurn
CHECK_DEADLOCK FALSE
