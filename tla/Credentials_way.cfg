\* No mail server: a link is handed over, and the person takes the sign-in back.
SPECIFICATION Spec
CONSTANTS
  Calls = {c1, c2}
  Sessions = {s1, s2}
  Links = {l1}
  MaxMade = 4
  OperatorMail = FALSE
INVARIANTS
  CredentialsInv
  NothingOutlivesReset
  NobodyElse
  NothingPrivateHandedOver
PROPERTIES
  SpentOnce
  SignsInAsPromised
SYMMETRY Alike
CHECK_DEADLOCK FALSE
