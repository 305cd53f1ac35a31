\* Two handshakes at a time, a PEM pair that is renewed twice, one failing read.
CONSTANTS
  Handshakes = {"a", "b"}
  Main = "a"
  Pem = TRUE
  MaxVersion = 3
  MaxFaults = 1
SPECIFICATION CertFairSpec
INVARIANTS
  FreshUnlessOvertaken
PROPERTY EventuallyFresh
