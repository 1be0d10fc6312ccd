SPECIFICATION SchedSpec
CONSTANTS
  NumBlocks = 3
  BlockSize = 2
  Token = {0}
  SeqId = {1, 2, 3, 4}
  MaxModelLen = 6
  HashVal = {0}
  Prompt <- MixedPrompt
  XxHash <- CollidingHash
  MaxNumBatchedTokens = 2
  MaxNumSeqs = 3
  EosTokens = {0}
  MaxTokens = {3}
INVARIANTS
  QueuesConsistent
  PlanIsExact
  WritesAreExclusive
  WaitersAreServed
  StepErrorsUnreachable
PROPERTIES
  ImplementsPool
CHECK_DEADLOCK FALSE
