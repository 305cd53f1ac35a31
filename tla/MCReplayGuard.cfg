\* A window of one second and a slack of two; the server starts inside the
\* window of the earliest timestamp and runs until all of them are stale.  The
\* salt comes in two spellings.
CONSTANTS
  Salts = {s1}
  Spellings = {plain, wrapped}
  Times = {2, 3}
  Attempts = {a1, a2}
  NoHello = NoHello
  AuthWindow = 1
  Slack = 2
  MaxStall = 1
  Start = 1
  Horizon = 6
SPECIFICATION MCSpec
CONSTRAINT BeforeHorizon
SYMMETRY Symmetry
INVARIANTS
  AcceptedOnce
  RefusedOnlyReplays
  RestartForgetsOnlyRecent
