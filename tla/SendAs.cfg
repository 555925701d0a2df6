CONSTANTS
  Runs = {r1}
  Users = {u1, u2}
  Timeout = 3
  Interval = 1
  Lag = 1
  SearchMax = 1
  LastDispatch = 1
  MaxTime = 8
  MaxRenames = 3
  MaxFaults = 1
  None = None
SPECIFICATION FairSpec
PROPERTIES TimedOutMeansLate RunsEnd
CHECK_DEADLOCK FALSE
