SPECIFICATION FairSpec
CONSTANTS
  WifiPriority = 5
  HttpPriority = 4
  MonitorPriority = 3
  Handlers = 3
  FieldSize = 3
  MaxRestarts = 1
\* The device may stop: without a radio, or with no server.
CHECK_DEADLOCK FALSE
INVARIANTS
  MonitorHasQueue
  TableIsStill
PROPERTIES
  ComesUp
