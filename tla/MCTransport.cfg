SPECIFICATION FairSpec
CONSTANTS
  Sources = {"browser", "cloud"}
  MaxAttempts = 4
  MaxFaults = 3
  MaxResumes = 2
INVARIANT OneThingPending
INVARIANT FailureKeepsSession
INVARIANT OneTransport
PROPERTY OnlyAPersonResumes
PROPERTY EndIsFinal
PROPERTY RecoveryEnds
CHECK_DEADLOCK FALSE
