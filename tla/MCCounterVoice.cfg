SPECIFICATION FairSpec
CONSTANTS
  MaxTurns = 2
  MaxDismissals = 2
INVARIANT TurnReturnsItsWords
INVARIANT ButtonFollowsTurn
INVARIANT MicrophoneFollowsTurn
PROPERTY TurnEnds
CHECK_DEADLOCK FALSE
