SPECIFICATION FairSpec
CONSTANTS
  c1 = c1
  c2 = c2
  Clients = {c1}
  Kinds = {"List", "Ping", "Restore", "Subscribe", "Unparsable", "Oversized", "NotUtf8"}
  Fragmented = TRUE
  ChannelCap = 1
  RingCap = 1
  SockCap = 1
  MaxRequests = 3
  MaxRows = 1
PROPERTIES EveryRequestAnswered TaskReleased
