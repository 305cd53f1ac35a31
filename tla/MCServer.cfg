\* Two connections compete for the only usable address of a /30, whose gateway
\* has the other: the pool runs out.  Identities are reused, so connections
\* follow each other without bound.
CONSTANTS
  Word = 8
  Base = 4
  Size = 4
  Gateway = 5
  Conns = {c1, c2}
  NoConn = NoConn
  QueueCap = 2
SPECIFICATION Spec
SYMMETRY Symmetry
INVARIANTS
  AddressExclusive
  AddressAccounting
  NeverEvicts
  FramesForOwnAddress
PROPERTY UplinkFromHolder
