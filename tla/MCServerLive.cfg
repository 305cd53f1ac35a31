\* One connection identity, reused for connection after connection, on a /30
\* with one usable address.  No symmetry, because these are liveness properties.
CONSTANTS
  Word = 8
  Base = 4
  Size = 4
  Gateway = 5
  Conns = {c1}
  NoConn = NoConn
  QueueCap = 2
SPECIFICATION FairSpec
PROPERTIES
  LostConnectionFreesAddress
  WriterEndEndsSession
  SlowClientNeverBlocks
