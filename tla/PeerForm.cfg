SPECIFICATION Spec
CONSTANTS
  n1 = n1  n2 = n2    own = own  custom = custom  None = None
  Nodes = {n1, n2}
  AdminOnly = {n2}
  NetSupport <- MCNetSupport
  Lla <- MCLla
  LLAs = {own, custom}
  Hosts <- MCHosts
  Ports = {p1}
  MTUs = {1420, 1400}
  Keys = {k1}
  AllowNoClearnet = TRUE
  Earlier <- MCEarlier
  MaxDialogues = 2
  MaxItems = 2
INVARIANTS TypeOK SessionsHaveNeighbors ShownAgain
PROPERTIES OnlyTouchedChanges EndpointFitsUnlessMoved
CHECK_DEADLOCK FALSE
