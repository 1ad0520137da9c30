CONSTANTS
  Addresses = {a1, a2}
  Functions = {Halt, Trace}
  MaxId = 2
  Halt = Halt
  None = None
SYMMETRY AddressSymmetry
CHECK_DEADLOCK FALSE
SPECIFICATION Spec
INVARIANTS
  ActiveCounted
  PlantedIffActive
  HaltActionsRecorded
  BackedUndisturbed
PROPERTY
  LeavesOthersAlone
