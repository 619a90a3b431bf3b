SPECIFICATION Spec
CONSTANTS
  Line = {l1}
  l1 = l1
  l2 = l2
  Dwell = 1
  DuplicateWindow = 6
  MaxChunksInView = 6
  MaxUtterances = 3
  MaxTurns = 4
  MaxGeneration = 3
  MaxRejections = 1
  MaxDrafts = 1
  Readiness = {TRUE, FALSE}
  Anticipation = {FALSE}
  Passthroughs = {FALSE}
  EarlyRejection = FALSE
  MaxCoalescedTurns = 2
  MaxCoalescedChars = 2
  MaxTurnRecords = 9
  ProvisionalTimeout = 1
CONSTRAINT OneLongLifeOrShortOnes
INVARIANT OneLiveRequest
INVARIANT NoStrandedQueue
INVARIANT NoSpeechDropped
INVARIANT SpeechInOnePlace
INVARIANT RecordsMatchLanes
INVARIANT StoppedScreenIsFinal
CHECK_DEADLOCK FALSE
