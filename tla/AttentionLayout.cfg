SPECIFICATION LayoutSpec
CONSTANTS
  Members = 3
  MaxLen = 4
  BlockSize = 2
  NumBlocks = 6
  Tables <- MCTables
  QueryHeads = 2
  KvHeads = 1
  HeadDim = 1
  MaxQueryTokens = 6
  Workspaces = {60, 250, 300, 420, 2000}
  DenseRows = 3
  ChunkRows = 2
  ScoreTile = 2
INVARIANTS
  AttentionIsExact
  RefusedOnlyForWorkspace
CHECK_DEADLOCK FALSE
