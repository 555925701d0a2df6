CONSTANTS
  a = a
  Domains = {"d", "e"}
  Boxes = {a}
  DomainOf <- MCDomainOf
  Steps <- MCSteps
  Probes = {"du"}
  MaxVersion = 2
  MaxFailures = 2
  None = None
SPECIFICATION FairSpec
INVARIANTS GapsAreReported TriggerCoversWrites
PROPERTY ChangesReachStats
