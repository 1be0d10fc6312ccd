SPECIFICATION GateSpec
CONSTANTS
    Inputs <- MCInputs
    Candidates <- MCCandidates
    Vocab = 2
    NonFinite = 9
INVARIANTS
  GateFailsClosed
  VerdictIsSamePrefix
CHECK_DEADLOCK FALSE
