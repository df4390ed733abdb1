SPECIFICATION Spec
CONSTANTS
  Control = "c2"
  Media = {"c6", "c7"}
  Peers = {"srs", "adobe", "librtmp"}
  EXT = 4
  HALF = 8
  Times = {2, 4}
  Lens = {0, 4}
  FirstChunk = 2
  ChunkSizes = {2, 3}
  Window = 2
  Slack = 6
  MaxMessages = 3
  MaxWire = 2
  MaxStalls = 1
INVARIANTS TypeOK StaysInStep
PROPERTIES ImplementsChannel PeerGoesOn
CHECK_DEADLOCK FALSE
