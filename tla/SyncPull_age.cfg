SPECIFICATION Spec
CONSTANTS
  Rows = {1}
  Devices = {1}
  Lag = 2
  MaxCommit = 1
  Limit = 1
  Retention = 3
  MaxTime = 6
  MaxWrites = 1
CHECK_DEADLOCK FALSE
PROPERTY BootstrapIsUsable
