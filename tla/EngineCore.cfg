SPECIFICATION EngineSpec
CONSTANTS
  NumBlocks = 3
  BlockSize = 2
  Token = {0, 1}
  SeqId = {1, 2, 3}
  MaxModelLen = 6
  HashVal = {0}
  Prompt <- LongPrompt
  XxHash <- CollidingHash
  MaxNumBatchedTokens = 2
  MaxNumSeqs = 2
  EosTokens = {1}
  MaxTokens = {3}
  MaxCallSize = 2
INVARIANTS
  KvIsFaithful
  SamplesSeeWholeHistory
  CleanBetweenCalls
  AttentionFollowsPlan
  ResultsComplete
PROPERTIES
  ImplementsGeneration
CHECK_DEADLOCK FALSE
