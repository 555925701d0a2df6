CONSTANTS
  z1 = z1
  Zones <- OneZone
  Statuses = {s1}
  Crons = {c1}
  Rechecks = {r1, r2}
  HistoryMax = 2
  AlertsMax = 2
  MaxLookups = 3
  TTL = 1
  RateLimit = 2
  LookupMax = 1
  MaxTime = 2
  MaxFailures = 1
  None = None
SPECIFICATION FairSpec
INVARIANTS StatusIsRecent AlertsMatchHistory
PROPERTIES RefreshesAreSerial LockfileAdvances RequestsEnd
CHECK_DEADLOCK FALSE
