SPECIFICATION Spec
CONSTANTS
  e1 = e1
  e2 = e2
  e3 = e3
  b1 = b1
  b2 = b2
  b3 = b3
  Entity <- MCEntity
  Body <- MCBody
  Absent = Absent
  NoBody = NoBody
  MaxBodies = 3
SYMMETRY MCSymmetry
INVARIANTS
  BodiesBelongToTheirEntities
  ContactsFindTheirEntities
  EditHasNoBodies
CHECK_DEADLOCK FALSE
