CONSTANTS
  U16 = 2
  Name = {"Raguza"}
  Position <- MCPosition
  Message = {"hello"}
  NoData = NoData
  Client <- MCOneClient
  server_endpoint <- MCServerEndpoint
  Greetings <- MCOneGreeting
  Start <- MCStart
  Keys = {0}
  Field <- MCField
  QueueBound = 1
  ChatBound = 1
  TxBound = 1
  NoPacket = NoPacket
  LoginIdent = 1
  ZeroPosition <- MCZero
  NoCharacter = NoCharacter
  NetBound = 2
  Network = {}
  Restarting = FALSE
SPECIFICATION FairCarnivalSpec
PROPERTIES
  LoginCompletes
  ChatComesBack
