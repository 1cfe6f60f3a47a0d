SPECIFICATION FairListSpec
CONSTANTS
  MaxHistory = 3
  RowIds = {1, 2, 3, 4, 5}
  MaxRestores = 1
  MAX_LIST_LIMIT = 2
  Limits = {1, 3}
INVARIANTS TypeOK NoRowTwice SkipsOnlyByEviction
PROPERTY WalkEnds
