SPECIFICATION Spec
CONSTANTS
  Narrow = 6
  Wide = 8
  ByteBits = 4
  MaxEncodings = 3
  NoName = NoName
  NoOpcode = NoOpcode
  Descriptions <- MCDescriptions
  NameOrder <- MCNameOrder
INVARIANTS
  DecodesAsDescribed
  InsertedIsExtracted
  PromotedOverlaysAgree
PROPERTIES
  IncludesEnd
