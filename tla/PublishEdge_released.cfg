CONSTANTS
  p1 = p1
  p2 = p2
  h1 = h1
  h2 = h2
  Publisher = {p1, p2}
  Handle = {h1, h2}
  NoTid = NoTid
  NoPublisher = NoPublisher
SPECIFICATION Spec
INVARIANTS EdgeIsReleased
