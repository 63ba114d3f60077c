SPECIFICATION ReportSpec
CONSTANTS
  Bytes = 20
  Layout <- MCLayout
  Packets <- MCPackets
  Codecs <- MCCodecs
  Printed <- MCPrinted
  MaxMeasured = 3850
INVARIANTS
  TypeOK
  InBounds
  FieldsAreMeant
  HeaderIsMeant
  Precise
  Ordered
  Reversible
  DecodedAsCoded
\* A packet is taken apart once, and a value is shown once.
CHECK_DEADLOCK FALSE
