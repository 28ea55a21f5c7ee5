\* Writers are attached at any time; one of them may throw.
SPECIFICATION Spec
CONSTANTS
  a = a
  b = b
  Writers <- MCWriters
  Throwing <- MCThrowing
  Capacity = 1
  Leasts <- MCLeasts
  LogLevels <- MCLogLevels
  MaxRecords = 3
INVARIANTS
  TypeOK
  RecordsArrive
PROPERTIES
  EveryRecordIsWritten
  DestructorEnds
\* Once the logger is gone nothing happens.
CHECK_DEADLOCK FALSE
