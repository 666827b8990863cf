\* Progress across a kill anywhere but between the swap and the stamp.
SPECIFICATION FairSpec
CONSTANTS
  Jobs = {1}
  Workers = {w1, w2}
  Staff = {s1}
  MaxAttempts = 2
  Limit = 1
  CrashPoints = {"reclaim", "claim", "work"}
  Overrun = FALSE
  MaxStops = 2
  None = None
PROPERTIES
  NothingStandsStill
  SwapAndCountHold
