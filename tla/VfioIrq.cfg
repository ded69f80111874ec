CONSTANTS
  Groups <- MCGroups
  Regions <- MCRegions
  Fds <- MCFds
  MaxHandles = 2
SPECIFICATION Spec
\* A process that followed a null pointer is gone.
CHECK_DEADLOCK FALSE
INVARIANTS
  IrqMapped
