SPECIFICATION Spec
CONSTANTS
  Sends = {b1, b2}
  Rounds = {w1, w2}
  Keys = {f, g}
  Scan = Scan
  Room = 1
  MaxFaults = 1
SYMMETRY TriesAlike
CHECK_DEADLOCK FALSE
INVARIANTS
  ArrivalsInv
  PlacesKept
  SentOnce
  ScanKeptIfSure
  NothingLeft
