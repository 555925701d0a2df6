CONSTANTS
  Msgs = {m}
  Length <- MCLength
  Window = 3
  MaxLines = 4
  MaxRenames = 1
  MaxBreaks = 1
  MaxClicks = 3
  None = None
SPECIFICATION MainlogFairSpec
INVARIANTS DeliversInOrder StatusIsSummary
PROPERTY TailRecovers
CHECK_DEADLOCK FALSE
