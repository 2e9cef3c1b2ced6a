SPECIFICATION Spec
CONSTANTS
  ASNs = {a1, a2}
  MaxPeers = 1
  Open = TRUE
  Workers = 3
  ServerURL = TRUE
  MaxFaults = 1
  MaxCrashes = 2
  None = None
INVARIANTS TypeOK CapacityKept MismatchHasCause CountIsHonest ErrorListCoversInfo StrippedIsReported
PROPERTIES SuccessIsTrueUnlessFault Serves
CHECK_DEADLOCK FALSE
