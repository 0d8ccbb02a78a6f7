SPECIFICATION Spec
CONSTANTS
  Entity <- MCEntity
  Root <- MCRoot
  MaxLocalId = 4
INVARIANT EveryEntityUpdated
