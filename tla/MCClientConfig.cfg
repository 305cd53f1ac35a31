CONSTANTS
  NoBytes = NoBytes
  Fold <- Spellings
  URIs <- SomeURIs
  Labels = {"", "home"}
  Feeds <- SomeFeeds
  Modes = {""}
  NotRunning = NotRunning
  NoFile = NoFile
  Empty = Empty
  Garbled = Garbled
  MaxServers = 2
  MaxCommands = 1
SPECIFICATION Spec
INVARIANTS AlwaysUsable MemoryIsSaved
PROPERTIES StartsFromLastSave
