SPECIFICATION Spec
CONSTANTS
  MaxRooms = 2
  Senders = {0, 1}
  MaxRequests = 2
  MaxAttempts = 1
  MaxPosts = 1
INVARIANT PollsRecover
CHECK_DEADLOCK FALSE
