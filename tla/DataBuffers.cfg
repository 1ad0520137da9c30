CONSTANTS
  Buffers = {b1, b2}
  Registers = {r1}
  Fifos = {f1}
  Null = Null
  Values = {v1}
  Zero = Zero
  Latencies = {0, 1}
  Horizon = 1
  Capacity = 1
  MaxHeld = 2
  MaxReserved = 2
  MaxRecords = 2
SYMMETRY Symmetry
CHECK_DEADLOCK FALSE
SPECIFICATION Spec
INVARIANTS
  TypeOK
  BuffersAccounted
PROPERTY
  StoredValuesStable
