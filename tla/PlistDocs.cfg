SPECIFICATION Spec
CONSTANT MaxOpen = 6
INVARIANTS
  TypeOK
  InStep
  RightVerdict
CHECK_DEADLOCK FALSE
