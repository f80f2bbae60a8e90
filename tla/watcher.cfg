CONSTANTS
  Packet = {p1, p2}
  NoPacket = NoPacket
SPECIFICATION FairSpec
INVARIANTS
  TypeOK
  OneReceiveOneSend
  TakesTheFront
  ThreadsLiveWithObject
  ReceiveBufferExclusive
PROPERTIES
  ReceivingIsFifo
  SendingIsFifo
  NoPacketIsStranded
  KeepsListening
  DestructionCompletes
