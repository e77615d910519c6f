SPECIFICATION Spec
CONSTANTS
  e1 = e1
  c1 = c1
  near = near
  far = far
  nearView = nearView
  farView = farView
  badView = badView
  NoView = NoView
  EntityIDs = {e1}
  Cells = {near, far}
  Clients = {c1}
  Viewports = {nearView, farView, badView}
  BadViewports = {badView}
  Covers <- OverTheBay
  MaxSeq = 2
INVARIANTS
  TypeOK
  SeenMirrorsBrowser
  AtRestExact
PROPERTIES
  VersionsAdvance
  BroadcastsSpaced
CHECK_DEADLOCK FALSE
