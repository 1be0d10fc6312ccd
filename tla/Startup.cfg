SPECIFICATION StartupSpec
CONSTANTS
  MaxUsize = 127
  MaxIsize = 63
  BlockSize = 2
  DtypeBytes = 2
  Options <- MCOptions
  Configs <- MCConfigs
  FreeBytes = {15, 95, 127}
  PrivateBlocks <- MCPrivateBlocks
  Snapshot <- MCSnapshot
  Published <- MCPublished
  Sources <- MCSources
  Unsafe <- MCUnsafe
  Shards <- MCShards
INVARIANTS
  PoolFitsMemory
  ReadyServesOneModel
  ReadyCanServe
  RefusalIsJustified
CHECK_DEADLOCK FALSE
