\* Two addresses of the server, an interface that comes and goes, on either platform.
CONSTANTS
  NoOne = NoOne
  None = None
  Servers = {"server", "other"}
  Gateway = "gateway"
  Elsewhere = "elsewhere"
  Uplinks = {"wifi"}
  MaxUplinks = 1
SPECIFICATION FairNetSpec
INVARIANTS
  RoutesRestored
  RoutedRight
  NothingLeaks
PROPERTIES
  EndsCompletely
