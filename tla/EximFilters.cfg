CONSTANTS
  a = a
  b = b
  Values = {a, b}
  NoValue = NoValue
  Garbled = Garbled
  Absent = Absent
  InitialFiles <- SomeFiles
  Comments <- SomeComments
  MaxOps = 2
  MaxEdits = 2
SPECIFICATION Spec
INVARIANT NoDuplicates
PROPERTIES AnswerIsTrue RollbackUndoes LosesOnlyUnseenChanges LoadsOnlyValidated
CHECK_DEADLOCK FALSE
