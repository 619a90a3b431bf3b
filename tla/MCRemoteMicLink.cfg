SPECIFICATION FairSpec
CONSTANTS
  Phone = phone
  Phones = {phone}
  Console = console
  None = None
  Peers <- SomePeers
  MaxGeneration = 20
  MaxCandidates = 1
  MaxRestarts = 0
  RelayFailures = 1
  RelayCapable = TRUE
  RelayForced = FALSE
  MaxPosts = 1
  MaxTrouble = 1
CONSTRAINT LateIsTrouble
INVARIANT SourceFollowsTransport
INVARIANT StoppedPhoneIsSilent
PROPERTY PhoneComesToRest
PROPERTY EndReachesBoth
CHECK_DEADLOCK FALSE
