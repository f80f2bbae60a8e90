CONSTANTS
  Packet = {p1, p2}
  NoPacket = NoPacket
SPECIFICATION Spec
INVARIANT SendBufferValid
