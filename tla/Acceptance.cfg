\* Filed twice, taken back once between, refused once, two failures.
CONSTANTS
  Accepts = {a1, a2}
  Undos = {u}
  Remove = Remove
  Sent = Sent
  Old = Old
  None = None
  MaxEdits = 1
  MaxFaults = 2
SYMMETRY AcceptsAlike
SPECIFICATION Spec
CHECK_DEADLOCK FALSE
INVARIANTS
  AcceptanceInv
  NothingForgotten
  DetailsStand
