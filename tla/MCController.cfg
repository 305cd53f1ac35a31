\* Two sessions at a time, each in either mode; identities are reused.
CONSTANTS
  Sessions = {s1, s2}
  None = None
  Free = Free
  Leaked = Leaked
SPECIFICATION FairSpec
INVARIANTS
  DisconnectHasTarget
PROPERTIES
  CancelledSessionEnds
  ReconnectServes
