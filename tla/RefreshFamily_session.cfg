\* A session signed in before tokens named their session; the grace compares
\* browser and address, as for a browser.
SPECIFICATION Spec
CONSTANTS
  NoInstallation = NoInstallation
  Clients = {owner, thief}
  Installation = NoInstallation
  FirstClient = owner
  LegacyFirst = TRUE
  RefreshGrace = 1
  RefreshTtl = 2
  SessionMax = 3
  GraceHashesKept = 2
  MaxTokens = 4
  MaxTime = 4
  MaxPending = 1
INVARIANTS
  FamilyInv
  OneLineOfDescent
  RefusedMeansEnded
PROPERTIES
  DisplacedStaysDead
  EndedOnceForCause
