\* One release; the journal write of "changing" fails, and the recovery it leads to is killed.
SPECIFICATION Spec
CONSTANTS
  NoRelease = NoRelease
  NTags = 1
  NewCore = {1}
  MaxWrites = 1
  MaxDisruptions = 2
  MaxAttempts = 2
CHECK_DEADLOCK FALSE
INVARIANTS FailedUpdateRestores
