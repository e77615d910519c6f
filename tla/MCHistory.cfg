SPECIFICATION Spec
CONSTANTS
  e1 = e1
  e2 = e2
  e3 = e3
  a1 = a1
  a2 = a2
  a3 = a3
  r1 = r1
  EntityIDs = {e1, e2, e3}
  Batches <- Reports
  Arrays = {a1, a2, a3}
  HistoryCap = 1
  chunkSize = 2
  Readers = {r1}
  MaxPolls = 3
  MaxNow = 2
  MaxBoots = 2
INVARIANTS
  TypeOK
  BatchWhole
  QueuedIntact
  LostOnlyWithCause
CHECK_DEADLOCK FALSE
