CONSTANTS
  Request = {r1, r2}
  Guarded = {r1}
  Quiet = {r2}
  Scoped = {r1}
  MaxRetries = 3
  MaxStops = 1
SPECIFICATION MCSpec
INVARIANTS
  TypeOK
  RowTellsAnswer
  NoDuplicateRow
  DroppedAfterRetries
  NoEntryVanishes
PROPERTIES
  EveryAnswerIsTold
CHECK_DEADLOCK FALSE
