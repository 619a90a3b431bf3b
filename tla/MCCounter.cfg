SPECIFICATION Spec
CONSTANTS
  MaxRooms = 1
  Senders = {1}
  MaxRequests = 2
  MaxAttempts = 2
  MaxPosts = 1
INVARIANT StoredOnce
INVARIANT AnsweredInOrder
INVARIANT ListenerMissesNothing
INVARIANT ShownOnce
CHECK_DEADLOCK FALSE
