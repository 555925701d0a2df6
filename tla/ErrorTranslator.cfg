CONSTANTS
  Threads = {t1, t2, t3}
  MaxCalls = 5
  NoThread = NoThread
SPECIFICATION TranslatorFairSpec
INVARIANTS TypeOK PatternsMatchDictionary LoadedOnce
PROPERTIES CallsEnd
CHECK_DEADLOCK FALSE
