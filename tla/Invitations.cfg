\* An owner and an adult, three links, two calls at once.
SPECIFICATION InvitationsSpec
SYMMETRY Alike
VIEW Asked
CONSTANTS
  Owners = {olive}
  Adults = {adam}
  Links = {l1, l2, l3}
  NoLink = NoLink
  Calls = {c1, c2}
  MaxAttempts = 1
INVARIANTS
  InvitationsInv
PROPERTIES
  OwnersChoiceStands
  TakenBackStaysOut
CHECK_DEADLOCK FALSE
