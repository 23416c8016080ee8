\* NextHandle wraps: the first four insertions give the values 4, 8, 0 and 4.
CONSTANTS
  MaxTypes = 2
  MaxObjects = 2
  MaxHandles = 2
  Rights = {r, w}
  HandleModulus = 12
  MaxCreates = 2
  MaxInserts = 4
  MaxHeld = 2
SPECIFICATION ObSpec
SYMMETRY RightsSymmetry
INVARIANTS
  ObTypeOK
  RefCountExact
  NoDanglingReference
  DeletedExactlyOnce
  HandleValuesUnique
PROPERTIES
  ClosedStaysClosed
  HandleKeepsItsObject
