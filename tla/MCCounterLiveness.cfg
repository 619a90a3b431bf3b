SPECIFICATION FairSpec
CONSTANTS
  MaxRooms = 1
  Senders = {1}
  MaxRequests = 1
  MaxAttempts = 2
  MaxPosts = 1
PROPERTY EndIsNoticed
CHECK_DEADLOCK FALSE
