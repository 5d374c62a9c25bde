\* An owner and an adult invite one person at once.
SPECIFICATION InvitationsSpec
SYMMETRY Alike
CONSTANTS
  Owners = {olive}
  Adults = {adam}
  Links = {l1, l2}
  NoLink = NoLink
  Calls = {c1}
  MaxAttempts = 1
PROPERTIES
  OnlyTheirOwnReplaced
CHECK_DEADLOCK FALSE
