SPECIFICATION Spec
CONSTANTS
  Formats = {f1, f2}
  Names = {n1, n2}
  MaxContents = 2
  MaxTime = 1
  ExpireAge = 1
  MaxInterrupts = 2
  None = None
INVARIANTS TypeOK FormatsFound KeptInTrash
PROPERTY ContentKept
CHECK_DEADLOCK FALSE
SYMMETRY Symmetry
