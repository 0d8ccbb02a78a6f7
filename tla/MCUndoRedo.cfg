SPECIFICATION Spec
CONSTANTS
  e1 = e1
  e2 = e2
  a1 = a1
  a2 = a2
  Entity <- MCEntity
  Slot <- MCSlot
  Nobody = Nobody
  Gone = Gone
  Widget = {"LocalScale","GizmoLocalPosition"}
  Values = {0, 1}
  Decomposed <- PositionsAndScales
  MaxItems = 2
  MaxMoves = 1
SYMMETRY MCSymmetry
INVARIANTS
  UndoTypeOK
  UndoAllRestores
  RedoAllReturns
PROPERTIES
  CommitsRecordEdits
CHECK_DEADLOCK FALSE
