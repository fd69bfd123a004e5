SPECIFICATION FairSpec
CONSTANTS
  MaxEmails = 3
  Workers = {w1}
  MaxRetries = 2
  Limit = 2
  MaxResets = 1
  MaxFaults = 1
INVARIANTS
  TypeOK
  CompletedWasSent
  FailedIsExhausted
  CopiesBounded
PROPERTIES
  EveryEmailSettles
CHECK_DEADLOCK FALSE
