\* A new version of a document, sent twice, two failures.
SPECIFICATION FairSpec
CONSTANTS
  Tries = {t1, t2}
  NoTry = NoTry
  Scopes = {"household", "owner"}
  Capture = FALSE
  MaxFaults = 2
  MaxMoves = 1
INVARIANTS
  UploadsInv
  OneFileOneVersion
PROPERTIES
  SweepForgetsNothing
  DeadClaimEnds
\* Tries are a bound: once they are used up, the key is left alone.
CHECK_DEADLOCK FALSE
