SPECIFICATION Spec
CONSTANTS
  Line = {l1, l2}
  l1 = l1
  l2 = l2
  Dwell = 1
  DuplicateWindow = 6
  MaxChunksInView = 3
  MaxUtterances = 3
  MaxTurns = 3
  MaxGeneration = 1
  MaxRejections = 0
  MaxDrafts = 2
  Readiness = {TRUE}
  Anticipation = {TRUE, FALSE}
  Passthroughs = {TRUE, FALSE}
  EarlyRejection = FALSE
  MaxCoalescedTurns = 2
  MaxCoalescedChars = 9
  MaxTurnRecords = 9
  ProvisionalTimeout = 1
INVARIANT EditableInStreamOrder
PROPERTY SpokenLinesNeverChange
SYMMETRY LineSymmetry
CHECK_DEADLOCK FALSE
