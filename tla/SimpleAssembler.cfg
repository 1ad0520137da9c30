CONSTANTS
  Lines <- AllLines
  EntryPoints = {"x", "z"}
  Bases = {4097}
  DataStarts = {0, 20000}
  DataAddressUnit = 1
  MaxLines = 5
  NoName = NoName
SPECIFICATION Spec
INVARIANTS ExecutableInPlace RelocationsMatch
PROPERTY AcceptedIsAssembled
CHECK_DEADLOCK FALSE
