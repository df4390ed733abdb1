\* Two clients at any time, without forwarders.
CONSTANTS
  c1 = c1
  c2 = c2
  h1 = h1
  h2 = h2
  Client = {c1, c2}
  Handle = {h1, h2}
  NoTid = NoTid
  HasForwarders = FALSE
SPECIFICATION Spec
INVARIANTS
  PlayersHaveIngester
