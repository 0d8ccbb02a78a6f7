SPECIFICATION EditorSpec
CONSTANTS
  e1 = e1
  e2 = e2
  e3 = e3
  Entity <- MCEntity
  Root = Root
  NoEntity = NoEntity
  MaxLocalId = 3
  PixelValues = 256
  MaxSmall = 1
SYMMETRY MCSymmetry
INVARIANTS
  EditorTypeOK
  OutlineOnlyWhileSelected
  PropertiesActOnWhatTheyShow
  PickingNamesDrawnEntities
PROPERTIES
  DeleteKeyRemovesTheSelection
CHECK_DEADLOCK FALSE
