SPECIFICATION Spec
CONSTANTS
  Investigators = {i1}
  Supervisors = {s1}
  NoUser = NoUser
  Everyone = Everyone
  MaxCases = 2
  MaxChanges = 3
  MaxDay = 31
  Jumps = {31}
  Windows = {0, 31}
  Ends = {0, 16}
  MonthDays = 16
  MaxBuckets = 1
INVARIANTS
  DashboardAddsUp
  AgeingAddsUp
  TrendsAddUp
  ScopesNest
CHECK_DEADLOCK FALSE
