SPECIFICATION FairSpec
CONSTANTS
  Line = {l1}
  l1 = l1
  l2 = l2
  Dwell = 1
  DuplicateWindow = 1
  MaxChunksInView = 1
  MaxUtterances = 2
  MaxTurns = 4
  MaxGeneration = 1
  MaxRejections = 1
  MaxDrafts = 1
  Readiness = {TRUE, FALSE}
  Anticipation = {FALSE}
  Passthroughs = {FALSE}
  EarlyRejection = FALSE
  MaxCoalescedTurns = 1
  MaxCoalescedChars = 9
  MaxTurnRecords = 9
  ProvisionalTimeout = 1
PROPERTY SpeechIsAnswered
CHECK_DEADLOCK FALSE
