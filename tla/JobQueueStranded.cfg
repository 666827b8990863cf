\* A kill between the swap and the stamp.
SPECIFICATION FairSpec
CONSTANTS
  Jobs = {1}
  Workers = {w1}
  Staff = {}
  MaxAttempts = 2
  Limit = 1
  CrashPoints = {"stamp"}
  Overrun = FALSE
  MaxStops = 2
  None = None
PROPERTIES
  DeadReservationsReclaimed
