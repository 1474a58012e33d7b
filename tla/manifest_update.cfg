CONSTANTS
  Products = {"monitor-base", "monitor-ext"}
  MaxVersion = 2
SPECIFICATION Spec
INVARIANTS
  TypeOK
  ChecksumsAreOfOneBuild
PROPERTIES
  UnswitchedRunVerifies
CHECK_DEADLOCK FALSE
