\* Two tabs of a browser on https.
SPECIFICATION ClientsSpec
CONSTANTS
  NoInstallation = NoInstallation
  Clients = {browser}
  Installation = NoInstallation
  FirstClient = browser
  LegacyFirst = FALSE
  RefreshGrace = 1
  RefreshTtl = 1
  SessionMax = 2
  GraceHashesKept = 2
  MaxTokens = 3
  MaxTime = 2
  MaxPending = 1
  Contexts = {a, b}
  HasLock = TRUE
  RenewalRetries = 2
  RenewalWaitMost = 1
  MaxLost = 2
SYMMETRY AlikeContexts
INVARIANTS
  ClientsInv
PROPERTIES
  OwnSignOutStands
