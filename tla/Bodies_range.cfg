SPECIFICATION Spec
CONSTANTS
  W = 16
  SeekLimit = 7
  Window = 2
  Sizes <- MCSizes
  Times <- MCTimes
  Conditions <- MCConditions
  MaxChanges = 2
  Codings <- MCCodings
  Room = 2
  Backlog = 3
INVARIANT PartialIsInFile
