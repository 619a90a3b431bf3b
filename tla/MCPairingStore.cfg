SPECIFICATION Spec
CONSTANTS
  Phones = {p1, p2}
  Console = console
  None = None
  Peers = {peer1, peer2}
  MaxGeneration = 1
  MaxCandidates = 1
  Servers = {s1, s2}
  UpdateRetries = 2
  MaxRequests = 5
SYMMETRY ServerSymmetry
INVARIANT OnePhoneGranted
INVARIANT NothingBeforeApproval
PROPERTY KeepsPromise
PROPERTY OwnerForGood
PROPERTY OfferWaits
CHECK_DEADLOCK FALSE
