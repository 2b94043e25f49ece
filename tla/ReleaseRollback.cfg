\* One release; a rollback that is killed after it let traffic in.
SPECIFICATION Spec
CONSTANTS
  NoRelease = NoRelease
  NTags = 1
  NewCore = {1}
  MaxWrites = 1
  MaxDisruptions = 2
  MaxAttempts = 2
CHECK_DEADLOCK FALSE
INVARIANTS NoAcceptedWriteLost
