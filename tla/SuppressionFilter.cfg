CONSTANTS
  c1 = c1
  c2 = c2
  c3 = c3
  Contacts <- MCContacts
  Tabs = {"hard", "blocked"}
  TabOf <- MCTabOf
  Cap = 2
  Views <- FilteredViews
  Readers = {r1}
  Writers = {w1}
  InitialLists <- MCLists
  MaxChanges = 2
  Nothing = Nothing
SPECIFICATION SuppressionSpec
INVARIANT NeverEndsEarly
CHECK_DEADLOCK FALSE
