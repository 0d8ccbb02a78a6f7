SPECIFICATION Spec
CONSTANTS
  e1 = e1
  e2 = e2
  a1 = a1
  a2 = a2
  Entity <- MCEntity
  Slot <- MCSlot
  Nobody = Nobody
  Gone = Gone
  Widget = {"LocalRotation"}
  Values = {0, 1}
  Decomposed <- PositionsAndScales
  MaxItems = 2
  MaxMoves = 0
PROPERTIES
  EditsLeaveAnItem
CHECK_DEADLOCK FALSE
