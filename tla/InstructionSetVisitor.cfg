SPECIFICATION Spec
CONSTANTS
  NoName = NoName
  MaxOpcodes = 2
  ArgValues = {0, 1, 3}
  Descriptions <- MCDescriptions
  NameOrder <- MCNameOrder
  PascalRank <- MCPascalRank
  Concatenated <- MCConcatenated
INVARIANTS
  GeneratedAsDescribed
  EncoderFits
  NamesDeclared
