\* Two releases and two disruptions, each a killed process, a reboot or a failing command.
SPECIFICATION FairSpec
CONSTANTS
  NoRelease = NoRelease
  NTags = 2
  NewCore = {1, 2}
  MaxWrites = 1
  MaxDisruptions = 2
  MaxAttempts = 2
\* The host is at rest when every release is decided and the budgets are spent.
CHECK_DEADLOCK FALSE
INVARIANTS TypeOK TrafficSeesOneVersion ClosedMeansServing AcknowledgedWritesKept UpdaterRunnable
PROPERTIES RollbackOnlyBeforeTraffic ReleaseDecided
