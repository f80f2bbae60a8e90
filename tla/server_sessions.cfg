CONSTANTS
  U16 = 2
  Name = {n1}
  Position = {pos1}
  Message = {m1}
  NoData = NoData
  Client <- MCClient
  LoginIdent = 1
  ZeroPosition = ZeroPosition
  NoCharacter = NoCharacter
  TxBound = 2
SPECIFICATION Spec
INVARIANTS
  TypeOK
  RepliesAreAnswers
  EndpointsSeparated
PROPERTY SessionsPersist
