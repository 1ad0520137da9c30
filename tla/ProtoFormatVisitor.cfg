SPECIFICATION Spec
CONSTANTS
  NoName = NoName
  Half32 = 8
  Half64 = 32
  MaxInstructions = 3
  NameOrder <- MCNameOrder
  Descriptions <- MCDescriptions
  Messages <- MCMessageValues
INVARIANTS
  DecodesAsConstrained
  SettersGuarded
CHECK_DEADLOCK FALSE
