\* Links, second factor, registration, staff sessions, API keys, exports
\* and personal data, each alone.
SPECIFICATION AccountsSpec
CONSTANTS
  Clicks = {c1, c2}
  MaxTokens = 2
  NoToken = NoToken
  Browsers = {b1, b2}
  MaxSecrets = 2
  MaxGens = 2
  CodesPerGen = 2
  NoRow = NoRow
  Emails = {m1, m2}
  Identities = {i1}
  MaxSlugs = 3
  ReservedSlugs = {1}
  Visits = {g1, g2}
  NoAccount = NoAccount
  Hands = {root, ada, sam}
  Admins = {root, ada}
  Founders = {root, ada}
  Users = {ann}
  Windows = {w1, w2}
  w1 = w1
  w2 = w2
  WindowsDo <- OneImpersonates
  NoStaff = NoStaff
  MaxKeys = 3
  KeyLimits = {0, 2}
  Calls = {q1, q2}
  MaxUses = 1
  NoKey = NoKey
  MaxExports = 2
  Builders = {x1, x2}
  BuildersDo <- StaffAndWorker
  x1 = x1
  x2 = x2
  MaxMishaps = 1
  NoExport = NoExport
  root = root
  ada = ada
  Persons = {ann, bob}
  Boss = bob
  Scopes <- FewRows
  MaxStops = 1
  NoRun = NoRun
SYMMETRY Alike
INVARIANTS
  LinksSafe
  SecondFactorSafe
  RegistrationSafe
  StaffSafe
  ExportsSafe
  PersonalDataSafe
PROPERTIES
  KeysSafe
CHECK_DEADLOCK FALSE
