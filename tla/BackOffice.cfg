\* Tickets, articles, announcements, subscriptions and the waiting list, each
\* alone.
SPECIFICATION BackOfficeSpec
CONSTANTS
  Tickets = {t1}
  Desks = {d1, d2}
  Customers = {ann, bob}
  Owners = {bob}
  Agents = {sam}
  MaxTalk = 3
  AttachmentLimit = 1
  NoOne = NoOne
  Entries = {e1, e2}
  Posts = {e1}
  Slugs = {g1, g2}
  Reserved = {}
  Editors = {v1, v2}
  EditorsDo <- OneMakesOneEdits
  v1 = v1
  v2 = v2
  MaxDays = 2
  NoContent = NoContent
  MaxNotices = 2
  Viewers = {ann}
  PlanNames = {free, pro}
  Unknown = Unknown
  Forms <- SomeForms
  ann = ann
  free = free
  pro = pro
  Clerks = {c1}
  CANDIDATE_LIMIT = 1
  MaxSeconds = 2
  NoNotice = NoNotice
  Subs = {s1}
  Plans = {"pro"}
  Products = {"pro", None}
  Statuses = {"active", "canceled"}
  Workers = {w1}
  Staff = {h1}
  Chores = {"replay", "sync", "suspend", "override"}
  Nightly = FALSE
  Slack = TRUE
  Tags = {TRUE}
  CrashPoints = {"plan"}
  Flaky = {}
  MaxEvents = 1
  MaxNow = 1
  MaxTries = 2
  MaxCrashes = 1
  None = None
  Addresses = {ann}
  Visits = {y1, y2}
  VisitsFor <- TwoVisits
  y1 = y1
  y2 = y2
  MaxLinks = 2
  MaxRows = 2
  NoEntry = NoEntry
SYMMETRY Alike
INVARIANTS
  NothingLostOrGivenAway
  NoticesSafe
PROPERTIES
  TicketsSafe
  ArticlesSafe
  WaitingListSafe
CHECK_DEADLOCK FALSE
