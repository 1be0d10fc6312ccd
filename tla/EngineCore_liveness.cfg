SPECIFICATION EngineFairSpec
CONSTANTS
  NumBlocks = 2
  BlockSize = 3
  Token = {0}
  SeqId = {1, 2}
  MaxModelLen = 6
  HashVal = {0}
  Prompt <- MCPrompt
  XxHash <- CollidingHash
  MaxNumBatchedTokens = 2
  MaxNumSeqs = 2
  EosTokens = {}
  MaxTokens = {3}
  MaxCallSize = 2
CHECK_DEADLOCK FALSE
PROPERTIES CallReturns
