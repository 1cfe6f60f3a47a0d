SPECIFICATION ServedSpec
CONSTANTS
  plain = plain
  full = full
  twin = twin
  mixed = mixed
  NoEcho = NoEcho
  Contents = {plain, full}
  Preview <- MCPreview
  EchoOf <- MCEchoOf
  EchoWindow = 1
  EchoServed = FALSE
  MaxHistory = 2
  MaxBurst = 1
  MaxIds = 2
  MaxPastes = 0
  MaxRestores = 2
PROPERTY RestorePickedUp
