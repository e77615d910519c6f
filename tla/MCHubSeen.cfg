SPECIFICATION Spec
CONSTANTS
  e1 = e1
  c1 = c1
  near = near
  far = far
  nearView = nearView
  farView = farView
  badView = badView
  NoView = NoView
  EntityIDs = {e1}
  Cells = {near, far}
  Clients = {c1}
  Viewports = {nearView, farView}
  BadViewports = {}
  Covers <- OverTheBay
  MaxSeq = 2
INVARIANT
  SeenWasSent
CHECK_DEADLOCK FALSE
