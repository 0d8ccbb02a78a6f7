SPECIFICATION Spec
CONSTANTS
  s1 = s1
  s2 = s2
  m1 = m1
  m2 = m2
  m3 = m3
  Scene <- MCScene
  MapAddress <- MCMapAddress
  Runtime = Runtime
  Editor = Editor
  NoWorld = NoWorld
  NoMap = NoMap
  MaxEdits = 1
  MaxSessions = 2
  MaxItems = 1
SYMMETRY MCSymmetry
INVARIANTS
  PlayTypeOK
  RunningWorldIsItsOwn
  FreedOnlyAfterAStop
  FirstRunKeepsTheEditedWorld
  SimulationReturnsBySaveOrOpen
PROPERTY ItemsDangleWithTheirMap
CHECK_DEADLOCK FALSE
