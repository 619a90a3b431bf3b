SPECIFICATION SendSpec
CONSTANTS
  MaxRooms = 1
  Senders = {1}
  MaxRequests = 2
  MaxAttempts = 2
  MaxPosts = 0
CONSTRAINT FewPolls
PROPERTY SendsSettle
CHECK_DEADLOCK FALSE
