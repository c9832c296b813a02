SPECIFICATION FairSpec
CONSTANTS
  BufLen = 12
  Rsv = 1
  Word = 64
  TooFew = 8
  Headers = 4
  PacketLen = {2, 3, 5}
  MaxHeld = 3
  MayCut = FALSE
INVARIANTS TypeOK NoCatchUp FreeIsFree OneNalu
PROPERTIES UnreadStays IsPacketQueue ReaderServed
