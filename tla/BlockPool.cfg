SPECIFICATION PoolSpec
CONSTANTS
  NumBlocks = 3
  BlockSize = 1
  Token = {0, 1}
  SeqId = {s1, s2}
  s1 = s1
  s2 = s2
  MaxModelLen = 3
  HashVal <- MCHashVal
  Prompt <- MCPrompt
  XxHash <- SentinelHash
SYMMETRY SeqSymmetry
CHECK_DEADLOCK FALSE
INVARIANTS PoolTypeOK Ownership PrefixPublished CachedIsFindable NoPoolErrors
PROPERTIES PublishedIsStable
