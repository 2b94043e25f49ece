\* Three drills, and two changes by users with one mishap anywhere on the way.
SPECIFICATION DrillsSpec
CONSTANTS
  Sources = {"a", "b"}
  HomeSource = "a"
  OtherSource = "b"
  MaxCandidates = 3
  MaxLeases = 2
  MaxHints = 2
  RunIds = {1, 2, 3}
  MaxTrouble = 1
\* A drill ends, and users stop changing the file.
CHECK_DEADLOCK FALSE
INVARIANTS ReadableIsCurrent AppliedNeverStale OneEventRun DrillChecksHold
PROPERTIES FailedReplacedUnderLease BroadConfirmedTwice
