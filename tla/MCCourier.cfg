SPECIFICATION MCSpec
CONSTANTS
  None = None
  d1 = d1
  d2 = d2
  a1 = a1
  a2 = a2
  c1 = c1
  h1 = h1
  h2 = h2
  h3 = h3
  Domain = {d1, d2}
  Attempt = {a1, a2}
  Records <- MCRecords
  Servers <- MCServers
  Policy <- MCPolicy
  MaxMXs = 2
  MaxWriteFaults = 2
  MaxReadFaults = 2
  NoPolicy = NoPolicy
  PolicyDomain = {d1, d2}
  Call = {c1}
  Publishable <- MCPublishable
  MaxMaxAge = 2
  MaxTime = 2
  MaxChanges = 1
  MaxFaults = 1
INVARIANTS
  TypeOK
  ExactLevel
  SavedLevel
  PolicyEnforced
  CheckedLevel
  
  ConnectionsBounded
  NothingStale
  OutageSurvived
  SoundFiles
PROPERTIES
  EveryCallReturns
  CacheCatchesUp
CHECK_DEADLOCK FALSE
