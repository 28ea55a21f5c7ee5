SPECIFICATION Spec
CONSTANTS
  MaxSize = 5
  Limits <- MCLimits
  Initials <- MCInitials
  MaxOp = 4
  MaxBytes = 9
CHECK_DEADLOCK FALSE
INVARIANTS TypeOK OnlyWritten
PROPERTIES CommitIsLossless QueueSpec
