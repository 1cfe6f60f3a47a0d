SPECIFICATION Spec
CONSTANTS
  c1 = c1
  c2 = c2
  Clients = {c1, c2}
  Kinds = {"Restore"}
  Fragmented = FALSE
  ChannelCap = 2
  RingCap = 1
  SockCap = 1
  MaxRequests = 2
  MaxRows = 0
SYMMETRY ClientSymmetry
INVARIANTS TypeOK AnswersOwnRequest
PROPERTY LateRestoreOrdered
