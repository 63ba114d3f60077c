SPECIFICATION Spec
CONSTANTS
  Codecs <- MCCodecs
  Printed <- MCCodecs
  MaxMeasured = 3850
INVARIANTS
  ShownAsMeasured
\* A value is shown once.
CHECK_DEADLOCK FALSE
