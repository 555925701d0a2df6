CONSTANTS
  out = out
  in = in
  Msgs = {out, in}
  SenderOf <- MCSenderOf
  RecipientOf <- MCRecipientOf
  Events <- MCEvents
  LocalDomains = {"local"}
  Day = 2
  TailLines = 2
  WeekDays = 1
  ScoreDays = 1
  KeepDays = 1
  CacheTTL = 1
  MaxTime = 4
  MaxRotations = 1
  MaxEvents = 3
  MaxFaults = 1
  None = None
SPECIFICATION Spec
INVARIANTS AnsweredIsKept HistoryIsWindow CurrentKeepsUp ReportsTellTruth PerfectScoreIsEarned
CHECK_DEADLOCK FALSE
