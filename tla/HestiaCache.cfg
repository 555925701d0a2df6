CONSTANTS
  boxes = boxes
  aliases = aliases
  domains = domains
  d1 = d1
  Keys = {boxes, aliases}
  Domains = {d1}
  DomainOf <- MCDomainOf
  Readers = {r1}
  Writers = {w1, w2}
  TTL = 2
  FetchMax = 1
  MaxTime = 3
  MaxVersion = 1
  NoValue = NoValue
  NoDomain = NoDomain
SPECIFICATION CacheSpec
INVARIANTS CacheTypeOK StaleOnlyWhenExcused HitsAreRecent
PROPERTIES ImplementsBoundedStaleness
SYMMETRY MCSymmetry
