SPECIFICATION FairSpec
CONSTANTS
  Daemons = {1, 2}
  MaxBinds = 3
  MaxChanges = 1
INVARIANTS StaleSocketNeverBlocks BootFindsGlobals
PROPERTIES NameKept BootEnds
