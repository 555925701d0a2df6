CONSTANTS
  a1 = a1
  a2 = a2
  f1 = f1
  f2 = f2
  Requests = {r1, r2}
  Aliases = {a1, a2}
  Forwards = {f1, f2}
  AliasLists <- UpToOneAlias
  MaxStarts = 2
  MaxFaults = 2
  None = None
SPECIFICATION Spec
INVARIANTS TypeOK AuditClaimsHappened ReplaceKeepsOne CreatesAreAudited
SYMMETRY MCSymmetry
CHECK_DEADLOCK FALSE
