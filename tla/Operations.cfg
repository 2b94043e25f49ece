\* Every tool on a small fixture, with one or two mishaps anywhere on its way.
SPECIFICATION OperationsSpec
CONSTANTS
  NTags = 1
  NChunks = 3
  PoolSize = 2
  MaxUpdaterKills = 2
  Files = {f, g}
  Collectors = {c}
  PageLimit = 1
  MaxEvents = 2
  MaxRecords = 3
  MaxRegrants = 1
  NArchives = 2
  Linked = {1}
  MaxForeignActs = 1
  Hosts = {"a", "b"}
  GatewayIPs = {"x", "y"}
  MaxMishaps = 1
  NOriginals = 4
  Workers = 2
  BatchSize = 2
  MaxUpsets = 1
  NSamples = 2
  MaxTrouble = 1
  MaxSetbacks = 2
  DriverOps = {1, 2}
  Terminals = {1, 2}
  MaxDriverRuns = 2
  MaxHintId = 2
  MaxEventKeys = 2
  MaxRetries = 1
  MaxSmokeFaults = 3
  MaxDualFaults = 2
  MaxContainers = 2
  Rescans = 3
\* A tool ends.
CHECK_DEADLOCK FALSE
INVARIANTS RecoveryForgetsNothing OpenedAsRestored LeftoversAccounted GuardsComeFirst
           AddressChangesLast MeasurementsSound ReportsHold
PROPERTIES RepeatedToolGoesOn
