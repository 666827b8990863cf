\* The team of a workspace and its files, each alone.
SPECIFICATION WorkspaceSpec
CONSTANTS
  People = {ann, bob, cat}
  Founder = ann
  Ids = {1, 2}
  Limits = {1, 2}
  Procs = {p1, p2}
  Does <- TeamDoes
  None = None
  ann = ann
  bob = bob
  cat = cat
  p1 = p1
  p2 = p2
  Uploads = {1, 2, 3}
  Size <- SizeDef
  Attachments = {3}
  Quotas = {1, 3}
  Requests = {r1, r2}
  RequestsDo <- AnyFiles
  MaxFaults = 1
  NoFile = NoFile
  r1 = r1
  r2 = r2
INVARIANTS
  OneOwnerUnlessCrossed
  BucketMatchesRows
PROPERTIES
  ClaimsFit
  RevokedNeverJoins
  EveryRequestEnds
  LedgerHolds
  EventuallyPurged
CHECK_DEADLOCK FALSE
