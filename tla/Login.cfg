SPECIFICATION Spec
CONSTANTS
  c1 = c1  c2 = c2  a1 = a1  a2 = a2  Web = Web  None = None
  Chats = {c1, c2}
  ASNs = {a1, a2}
  Owns <- MCOwns
  KnowsCode = {c1}
  SinglePrivilege = TRUE
  ManyProviders = TRUE
  Jobs = {j1, j2}
  MaxRestarts = 1
INVARIANTS TypeOK  PrivilegedIsLoggedIn SavedWhenQuiet
PROPERTIES LinkUsedOnce
SYMMETRY Symmetry
CHECK_DEADLOCK FALSE
