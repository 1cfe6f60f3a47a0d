SPECIFICATION Spec
CONSTANTS
  plain = plain
  full = full
  twin = twin
  mixed = mixed
  NoEcho = NoEcho
  Contents = {full, mixed}
  Preview <- MCPreview
  EchoOf <- MCEchoOf
  EchoWindow = 2
  EchoServed = TRUE
  MaxHistory = 2
  MaxBurst = 1
  MaxIds = 3
  MaxPastes = 0
  MaxRestores = 1
INVARIANT NoPhantomRow
