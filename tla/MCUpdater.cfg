\* Two panels, one of them with two update requests at a time, on either platform.
CONSTANTS
  NaN = NaN
  NoFile = NoFile
  Procs = {"p", "q"}
  Handlers <- TwoPanels
  Histories <- FeedHistories
  Oversize = {}
SPECIFICATION UpdaterSpec
\* On Windows a panel killed between its renames leaves nothing to start.
CHECK_DEADLOCK FALSE
INVARIANTS
  SomeBinarySurvives
  OffersLaterReleases
  WindowsNeverDowngraded
