SPECIFICATION Spec
CONSTANTS
  e1 = e1
  EntityIDs = {e1}
  Longitudes <- SomeLongitudes
  MapViews <- SomeViews
  MaxEvents = 4
  MaxWire = 1
INVARIANTS
  TypeOK
  DrawnIsKnown
  ShowsView
PROPERTIES
  CatchesUp
CHECK_DEADLOCK FALSE
