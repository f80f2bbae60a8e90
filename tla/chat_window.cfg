CONSTANTS
  Rows = 5
  MaxMessages = 7
  U8 = 8
  Size = 14
  TypeByte <- MCTypeByte
  Given <- MCGiven
  Idents <- MCIdents
  None = none
SPECIFICATION LineSpec
INVARIANTS
  TypeOK
  WindowIsCurrent
  NoMessageSkipped
  FieldsReadBack
