SPECIFICATION InstSpec
CONSTANTS
    Installers = {i1, i2}
    Releases <- MCReleases
    Priors <- MCPriors
    Digests <- MCDigests
    Tag = "v2"
    FileLimit = 4
    TotalLimit = 6
    HeaderLimit = 1
    MaxU64 = 1000
    MaxRepublish = 1
INVARIANTS
  InstallsAreWhole
PROPERTIES
  InstallsAreImmutable
CHECK_DEADLOCK FALSE
