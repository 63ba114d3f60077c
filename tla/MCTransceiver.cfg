SPECIFICATION FairSpec
CONSTANTS
  MaxCalls = 2
  Attempts = 2
INVARIANTS
  ParametersMatch
  ReportsAreTrue
  CarriesItsOwnUnlessSpoiled
  RadioAgrees
PROPERTIES
  AirIsUndisturbed
  StillSendingIsTrue
  CallEnds
\* The chip may not answer, and calls may hang for good in LoRaError.
CHECK_DEADLOCK FALSE
