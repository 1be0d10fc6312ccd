SPECIFICATION MonSpec
CONSTANTS
    Interval = 2
    Limit = 4
    TicksPerMs = 2
    SampleLimit = 3
    MaxTime = 5
INVARIANTS
  AcceptanceIsExact
  DriverBalanced
PROPERTIES
  MonitorReturns
CHECK_DEADLOCK FALSE
