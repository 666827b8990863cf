SPECIFICATION FairSpec
CONSTANTS
  Subs = {s1}
  Plans = {"pro"}
  Products = {"pro"}
  Statuses = {"active", "past_due", "paused"}
  Workers = {w1}
  Staff = {}
  Chores = {}
  Nightly = TRUE
  Slack = FALSE
  Tags = {TRUE, FALSE}
  CrashPoints = {"mark"}
  Flaky = {"notify", "mark"}
  MaxEvents = 2
  MaxNow = 2
  MaxTries = 2
  MaxCrashes = 1
  None = None
  s1 = s1
  w1 = w1
INVARIANTS
  MirrorSound
  ToldOnce
PROPERTIES
  LateNeverUndoes
  SettlesAndHeals
CHECK_DEADLOCK FALSE
