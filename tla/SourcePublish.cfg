\* Two publishers and reloads at any time.  Coroutines that cross may leave forwarders
\* behind, until no object is left and nobody can come any more.
CONSTANTS
  p1 = p1
  p2 = p2
  r = r
  Publisher = {p1, p2}
  Reloader = r
  NumServers = 2
  MaxForwarders = 6
SPECIFICATION FairSpec
CHECK_DEADLOCK FALSE
INVARIANTS
  TypeOK
  CanPublishIfNotStreaming
  IdleCanBePublished
  ForwardersFollowPublisher
  UsedForwardersAreAlive
PROPERTIES
  ServiceFinishes
