SPECIFICATION Spec
CONSTANTS
  c1 = c1
  c2 = c2
  Clients = {c1}
  Kinds = {"Subscribe", "Ping"}
  Fragmented = TRUE
  ChannelCap = 1
  RingCap = 1
  SockCap = 1
  MaxRequests = 2
  MaxRows = 1
INVARIANT IdAlwaysEchoed
