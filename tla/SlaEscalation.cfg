SPECIFICATION FairSpec
CONSTANTS
  Priorities = {"HIGH", "LOW"}
  Target <- Targets
  DueSoonTenths = 4
  AtRiskTenths = 7
  Updates = {u1}
  Checks = {c1, c2}
  NoTime = NoTime
  MaxTime = 3
  MaxFaults = 1
INVARIANTS
  TypeOK
  DueFollowsClock
  DueSoonWasMailed
  ChasesBounded
PROPERTIES
  BreachIsRecorded
