CONSTANTS
  Lines <- AllLines
  EntryPoints = {"y"}
  Bases = {4097}
  DataStarts = {0}
  DataAddressUnit = 1
  MaxLines = 3
  NoName = NoName
SPECIFICATION Spec
INVARIANT ExecutableResolved
CHECK_DEADLOCK FALSE
