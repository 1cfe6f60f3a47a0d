SPECIFICATION Spec
CONSTANTS
  c1 = c1
  c2 = c2
  Clients = {c1}
  Kinds = {"List", "Subscribe", "Oversized"}
  Fragmented = TRUE
  ChannelCap = 1
  RingCap = 1
  SockCap = 1
  MaxRequests = 3
  MaxRows = 3
INVARIANT CompleteView
