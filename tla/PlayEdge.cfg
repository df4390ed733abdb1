\* Two clients that come and go at any time, under fairness.
CONSTANTS
  c1 = c1
  c2 = c2
  h1 = h1
  h2 = h2
  Client = {c1, c2}
  Handle = {h1, h2}
  NoTid = NoTid
  HasForwarders = TRUE
SPECIFICATION FairSpec
INVARIANTS
  TypeOK
  PlayersKeepIngester
  IngestPlayAsserts
  IngesterOwnsItsClient
  StopResetsEdge
PROPERTIES
  PlayersAreServed
