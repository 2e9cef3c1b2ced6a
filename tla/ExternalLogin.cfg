SPECIFICATION Spec
CONSTANTS
  Flows = {f1, f2}
  a1 = a1  a2 = a2  t1 = t1  t2 = t2  junk = junk  None = None
  ASNs = {a1, a2}
  Texts = {t1, t2, junk}
  Reads <- MCReads
  Account <- MCAccount
  Source = "auto"
  HasUserinfo = TRUE
  MaxPending = 1
  Keys = {k1, k2, k3}
  MaxRotations = 2
  MaxFaults = 1
INVARIANTS TypeOK LinkLives PageIsTrue
PROPERTIES FailsForAReason FinishedOnce
SYMMETRY Symmetry
CHECK_DEADLOCK FALSE
