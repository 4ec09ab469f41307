SPECIFICATION AnswersSpec
CONSTANTS
  Targets <- MCTargets
  MaxDeviations <- MCDeviations
  MaxReported = 1
  MaxMessages = 3
  MaxMcpFailures = 1
  Request = {r1, r2}
  MaxKey = 3
CHECK_DEADLOCK FALSE
INVARIANTS VerdictIsSound    
PROPERTIES  ValidatorConverges
