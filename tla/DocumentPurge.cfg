\* One owner; an upload, two drawings and one failure, or one failure and a
\* restore.
CONSTANTS
  Owners = {ana}
  Nobody = Nobody
  First = "v1"
  Second = "v2"
  Drawings <- ThumbAndPage
  Bounds <- SmallBounds
SPECIFICATION FairSpec
CHECK_DEADLOCK FALSE
INVARIANTS
  PurgeInv
  NothingForgotten
PROPERTIES
  NoticeKept
  LeftoversGo
