CONSTANTS
  U16 = 2
  Name = {"Raguza"}
  Position <- MCPosition
  Message = {"hello"}
  NoData = NoData
  Client <- MCClient
  server_endpoint <- MCServerEndpoint
  Greetings <- MCGreetings
  Start <- MCStart
  Keys = {2, 1, 0}
  Field <- MCField
  QueueBound = 2
  ChatBound = 1
  TxBound = 3
  NoPacket = NoPacket
SPECIFICATION FairSpec
INVARIANTS
  TypeOK
  UpdatesAreAWalk
  OneMovePerTick
  LoginGoesFirst
PROPERTY KeepsTicking
