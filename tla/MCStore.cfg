SPECIFICATION FairSpec
CONSTANTS
  e1 = e1
  e2 = e2
  near = near
  far = far
  EntityIDs = {e1, e2}
  Cells = {near, far}
  Sources <- OneSource
  HistoryCap = 1
  MaxSeq = 4
  MaxSubs = 2
INVARIANTS
  TypeOK
  TrackingMatchesIndex
  NoLostWakeup
PROPERTIES
  ApplyFinishes
  EvictionSpec
  FeedSpec
CHECK_DEADLOCK FALSE
