\* One worker killed anywhere beside staff; payments, checkouts, what the
\* dashboard makes of them, and what the API was used for; each alone.
SPECIFICATION QueueSpec
CONSTANTS
  Jobs = {1, 2}
  Workers = {w1}
  Staff = {s1}
  MaxAttempts = 2
  Limit = 2
  CrashPoints = {"reclaim", "claim", "stamp", "work"}
  Overrun = TRUE
  MaxStops = 2
  None = None
  Orders = {o1}
  Price = 2
  Tagged = {}
  Tills = {k1, k2}
  MaxTroubles = 1
  NoPayment = NoPayment
  Teams = {o1, o2}
  Sold = {pro}
  Unpriced = Unpriced
  Foreign = Foreign
  MaxCheckouts = 2
  MaxNews = 2
  MaxSeconds = 1
  NoPortal = NoPortal
  TicksPerDay = 2
  DaysPerMonth = 3
  RawRetentionDays = 2
  ClampDays = 2
  ChartDays = 2
  MonthlyLimit = 1
  MaxTicks = 7
  Shops = {o1, o2}
  Catalogue = {free, pro}
  FreePlan = free
  CurrencyCodes = {usd, eur}
  USD = usd
  ChargeAmounts = {9}
  HoursPerDay = 2
  DaysPerFigure = 2
  RANGE_DAYS = {1, 3}
  WeeklyAbove = 2
  DaysPerBar = 2
  MaxHours = 4
  MaxCharges = 2
  MaxMoves = 3
INVARIANTS
  NothingLost
  SpareAttempts
  RowsTellTheTruth
  PaymentsSafe
  CheckoutSafe
  FiguresHold
  UsageSafe
CHECK_DEADLOCK FALSE
