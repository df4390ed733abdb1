CONSTANTS
  p1 = p1
  p2 = p2
  r = r
  Publisher = {p1, p2}
  Reloader = r
  NumServers = 2
  MaxForwarders = 6
SPECIFICATION Spec
INVARIANTS OnePublisher
