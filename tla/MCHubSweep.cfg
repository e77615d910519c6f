SPECIFICATION FairSpec
CONSTANTS
  e1 = e1
  c1 = c1
  c2 = c2
  near = near
  far = far
  nearView = nearView
  farView = farView
  badView = badView
  NoView = NoView
  EntityIDs = {e1}
  Cells = {near}
  Clients = {c1, c2}
  Viewports = {farView}
  BadViewports = {}
  Covers <- OneView
  MaxSeq = 1
PROPERTIES
  SweepFinishes
  SkippedOnlyByMove
CHECK_DEADLOCK FALSE
