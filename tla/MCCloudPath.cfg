SPECIFICATION FairSpec
CONSTANTS
  free = free
  paid = paid
  None = None
  FreeProviders <- OneFree
  PaidProviders <- OnePaid
  MayTrain = {free}
  Sustains = {paid}
  Settings <- Deployments
  FailuresOf <- Failures
  RetryAfters = {0}
  Turns = {t1}
  AttemptDeadline = 2
  TurnDeadline = 3
  FloorReserve = 1
  MinAttempt = 1
  MinEscalation = 1
  EscalationCeiling = 1
  RateLimitMemory = 1
  Threshold = 2
  BaseCooldown = 1
  MaxCooldown = 1
  PermanentConfirmations = 2
  PermanentProbe = 1
  Calls = {c1}
  RetryDelays <- Delays
  LaneBudget = 4
  MinRetry = 2
  MaxRetryAfter = 1
  RateLimitBypass = 1
  QuotaBypass = 2
INVARIANT AnsweredInTime
 
INVARIANT NeverStranded
PROPERTY OutageHeals
CHECK_DEADLOCK FALSE
