SPECIFICATION Spec
CONSTANTS
  a1 = a1  a2 = a2  n1 = n1  n2 = n2  o1 = o1  o2 = o2  None = None
  ASNs = {a1, a2}
  Nodes = {n1, n2}
  Orders = {o1}
  Events = {"switch"}
  MaxEvents = 1
INVARIANTS ShownIsMeant
CHECK_DEADLOCK FALSE
