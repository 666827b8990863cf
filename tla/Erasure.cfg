SPECIFICATION FairSpec
CONSTANTS
  People = {ann, bob}
  Founder = ann
  Passwords = {bob}
  MaxRequests = 2
  Procs = {p1, p2}
  Does <- StaffDoes
  CrashPoints = {"complete", "tell"}
  MaxFaults = 1
  None = None
  ann = ann
  bob = bob
  p1 = p1
  p2 = p2
INVARIANTS
  ErasedAsDecided
  GoodbyeIsSaid
PROPERTIES
  WorkGoesWithTheLast
  ApprovalTakesEffect
CHECK_DEADLOCK FALSE
