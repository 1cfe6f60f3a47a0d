SPECIFICATION Spec
CONSTANTS
  plain = plain
  full = full
  twin = twin
  mixed = mixed
  NoEcho = NoEcho
  Contents = {plain, full, mixed}
  Preview <- MCPreview
  EchoOf <- MCEchoOf
  EchoWindow = 1
  EchoServed = TRUE
  MaxHistory = 2
  MaxBurst = 2
  MaxIds = 3
  MaxPastes = 0
  MaxRestores = 2
INVARIANTS TypeOK AtMostOneGhostRow AtMostOneHiddenPerRestore
PROPERTY ImplementsFeed
