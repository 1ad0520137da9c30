CONSTANTS
  MaxSteps = 3
CHECK_DEADLOCK FALSE
SPECIFICATION FairSpec
INVARIANTS
  QuantumAccounted
  CLIStepExclusive
  CLIWithinQuantum
  RenodeAccessAlone
PROPERTY
  CallsReturn
