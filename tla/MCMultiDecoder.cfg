SPECIFICATION Spec
CONSTANTS
  FanetDevice = {f1, f2}
  ZeroFanet = f1
  OgnDevice = {o1, o2}
  ZeroOgn = o1
  MaxDevices = 1
  MaxOgnDevices = 1
  MaxTime = 2
  FanetLength = {10, 17, 19}
  OgnLength = {20, 21}
  GroundState = {14}
PROPERTIES
  TablesAreSeparate
