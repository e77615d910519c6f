SPECIFICATION Spec
CONSTANTS
  e1 = e1
  e2 = e2
  e3 = e3
  NoCell = NoCell
  EntityIDs = {e1, e2, e3}
  Positions = {"east", "west", "far", "nowhere"}
  Cells <- CellsAt
  CellOf <- CellsOf
  Viewports <- SomeViews
  Feeds <- SomeFeeds
  MaxReturns = 1
  MaxCopies = 2
INVARIANTS
  TypeOK
  LayersExact
  CountsMatch
  AnswersExact
  StaysFindable
PROPERTIES
  BatchAsWhole
SYMMETRY Alike
CHECK_DEADLOCK FALSE
