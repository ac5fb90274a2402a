SPECIFICATION FairSpec
CONSTANTS
  p1 = p1  p2 = p2
  A = A  B = B
  Senders = {s1, s2}
  Packets = {p1, p2}
  NoPacket = NoPacket
  BodyLen <- Lengths
  Ids = {A, B}
  NoId = NoId
  IdOf <- PacketIds
  MaxLen = 1
  Room = 3
  Protocols = {"bin", "json"}
  TimeOuts = {1, 2}
INVARIANT TypeOK
INVARIANT Aligned
INVARIANT InOrder
PROPERTY CallsReturn
