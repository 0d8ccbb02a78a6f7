SPECIFICATION Spec
CONSTANTS
  Entity <- MCEntity
  Root <- MCRoot
  MaxLocalId = 4
INVARIANTS
  TypeOK
  HierarchyConsistent
  PickingFindsTheEntity
  DeleteRemovesTheSubtree
  UpdatedOnceParentsFirst
  LoadRebuildsTheHierarchy
PROPERTIES
  LocalIdsNeverReused
  LostOnlyByDropBelowItself
  
