SPECIFICATION StationFairSpec
CONSTANTS
  o1 = o1
  o2 = o2
  MaxPackets = 5
  Short = {3}
  Places = 2
  Device = {o1, o2}
  ZeroDevice = o1
  Sender <- MCSender
  Sized = {1, 2, 4, 5}
  OtherData = {2}
  MaxDevices = 1
  MaxTime = 1
INVARIANTS
  InOrder
  RecordsAreWhole
PROPERTIES
  NeverGoesBack
  PositionIsStored
\* The task may hang for good in LoRaError.
CHECK_DEADLOCK FALSE
