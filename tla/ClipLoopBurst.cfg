SPECIFICATION FairSpec
CONSTANTS
  plain = plain
  full = full
  twin = twin
  mixed = mixed
  NoEcho = NoEcho
  Contents = {plain, full, mixed}
  Preview <- MCPreview
  EchoOf <- MCEchoOf
  EchoWindow = 1
  EchoServed = TRUE
  MaxHistory = 1
  MaxBurst = 2
  MaxIds = 3
  MaxPastes = 1
  MaxRestores = 2
INVARIANTS HistoryListed SnapshotReplaysFeed
PROPERTY RestoreAnswered
