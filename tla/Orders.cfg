SPECIFICATION Spec
CONSTANTS
  a1 = a1  a2 = a2  n1 = n1  n2 = n2  o1 = o1  o2 = o2  None = None
  ASNs = {a1}
  Nodes = {n1, n2}
  Orders = {o1, o2}
  Events = {"switch", "restart", "outage"}
  MaxEvents = 1
INVARIANTS SuccessIsTrue NothingIsTrue
PROPERTIES RegistrySpec
SYMMETRY Symmetry
CHECK_DEADLOCK FALSE
