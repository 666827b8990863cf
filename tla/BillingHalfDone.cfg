SPECIFICATION Spec
CONSTANTS
  Subs = {s1}
  Plans = {"pro"}
  Products = {"pro"}
  Statuses = {"active", "past_due", "canceled"}
  Workers = {w1}
  Staff = {}
  Chores = {}
  Nightly = TRUE
  Slack = TRUE
  Tags = {TRUE}
  CrashPoints = {"plan"}
  Flaky = {}
  MaxEvents = 1
  MaxNow = 2
  MaxTries = 2
  MaxCrashes = 1
  None = None
  s1 = s1
  w1 = w1
INVARIANTS
  EntitlementFollowsMirror
CHECK_DEADLOCK FALSE
