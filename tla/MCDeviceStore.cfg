SPECIFICATION Spec
CONSTANTS
  d1 = d1
  d2 = d2
  d3 = d3
  d4 = d4
  Device = {d1, d2, d3, d4}
  Data = {x1, x2}
  ZeroDevice = d1
  ZeroData = x1
  MaxDevices = 3
  MaxTime = 4
SYMMETRY Symmetry
INVARIANTS
  OneSlotPerDevice
  OccupiedIsPrefix
  RecordsAreLatest
  ForgottenIsOldest
PROPERTIES
  ImplementsDirectory
